---- MODULE Spec2Model ----
(***************************************************************************)
(* A model of llmls: the list invocation (fetch, merge, filter, sort,      *)
(* render) of main.go, and the pure helpers of openrouter.go / ollama.go.  *)
(* A Go string is modelled as the sequence of its bytes, each a string.     *)
(***************************************************************************)
EXTENDS Integers, Sequences, FiniteSets, TLC

VARIABLES
    pc,            \* position of listModelsCommand
    pattern,       \* fs.Arg(0), or "" (the empty sequence)
    detail,        \* the --detail flag
    models,        \* the local variable `models` of listModelsCommand
    ollamaModels,  \* the local variable `ollamaModels`
    primary,       \* what FetchModels returned (history)
    merged,        \* `models` right after the append (history)
    filtered,      \* `models` right after FilterModels (history)
    stdout,        \* lines written to standard output
    stderr,        \* lines written to standard error
    exitCode,      \* process exit status, -1 while running
    steps,         \* the calls made so far, in order
    fetchErr,      \* why FetchModels failed, "" if it did not
    ollamaErr,     \* why FetchOllamaModels gave up, "" if it did not
    termW,         \* what GetTerminalWidth returned, 0 before it is called
    tzOffset,      \* offset of the local time zone used by FormatDate
    gPc,           \* position of the globMatch harness
    gPattern,      \* argument `pattern` of globMatch
    gStr,          \* argument `str` of globMatch
    gResult,       \* value returned by globMatch
    fnPc,          \* position of the helper harness
    fnName,        \* the helper being called
    fnArgs,        \* its arguments, a record
    fnRet,         \* the value it returned
    provArgs       \* fs.Args() of providersCommand: the positional arguments

listVars == <<pc, pattern, detail, models, ollamaModels, primary, merged,
              filtered, stdout, stderr, exitCode, steps, fetchErr, ollamaErr,
              termW, tzOffset, provArgs>>
globVars == <<gPc, gPattern, gStr, gResult>>
fnVars == <<fnPc, fnName, fnArgs, fnRet>>
vars == <<pc, pattern, detail, models, ollamaModels, primary, merged,
          filtered, stdout, stderr, exitCode, steps, fetchErr, ollamaErr,
          termW, tzOffset,
          gPc, gPattern, gStr, gResult,
          fnPc, fnName, fnArgs, fnRet, provArgs>>

----------------------------------------------------------------------------
(* Characters *)

NL == "\n"
BS == "\\"
\* a byte that is not valid UTF-8
BAD == "<ff>"

FoldMap ==
    [A |-> "a", B |-> "b", C |-> "c", D |-> "d", E |-> "e", F |-> "f",
     G |-> "g", H |-> "h", I |-> "i", J |-> "j", K |-> "k", L |-> "l",
     M |-> "m", N |-> "n", O |-> "o", P |-> "p", Q |-> "q", R |-> "r",
     S |-> "s", T |-> "t", U |-> "u", V |-> "v", W |-> "w", X |-> "x",
     Y |-> "y", Z |-> "z"]

\* simple case folding of one character
Fold(c) == IF c \in DOMAIN FoldMap THEN FoldMap[c] ELSE c

\* strings.EqualFold
EqualFold(s, t) ==
    /\ Len(s) = Len(t)
    /\ \A i \in 1..Len(s) : Fold(s[i]) = Fold(t[i])

HasPrefix(s, p) == Len(s) >= Len(p) /\ SubSeq(s, 1, Len(p)) = p

\* strings.ReplaceAll for a non-empty `old`: leftmost, non-overlapping
RECURSIVE ReplaceAll(_, _, _)
ReplaceAll(s, old, new) ==
    IF s = <<>> THEN <<>>
    ELSE IF HasPrefix(s, old)
         THEN new \o ReplaceAll(SubSeq(s, Len(old) + 1, Len(s)), old, new)
         ELSE <<Head(s)>> \o ReplaceAll(Tail(s), old, new)

----------------------------------------------------------------------------
(* globMatch: regexp.QuoteMeta, the two replacements, anchoring, compile,  *)
(* match.                                                                  *)

\* the characters regexp.QuoteMeta escapes
Special == {"\\", ".", "+", "*", "?", "(", ")", "|", "[", "]", "{", "}", "^", "$"}

RECURSIVE QuoteMetaNoDot(_)
QuoteMetaNoDot(s) ==
    IF s = <<>> THEN <<>>
    ELSE (IF Head(s) \in Special \ {"."} THEN <<BS, Head(s)>> ELSE <<Head(s)>>)
         \o QuoteMetaNoDot(Tail(s))

RECURSIVE QuoteMeta(_)
QuoteMeta(s) ==
    IF s = <<>> THEN <<>>
    ELSE (IF Head(s) \in Special THEN <<BS, Head(s)>> ELSE <<Head(s)>>)
         \o QuoteMeta(Tail(s))

Tok(k, c) == [k |-> k, c |-> c]

\* regexp.Compile on the syntax globMatch can produce: ^ $ . * \x and
\* literals.  The result is [err, prog]; err is TRUE for invalid UTF-8, a
\* repetition with nothing to repeat, a trailing backslash or any other
\* unescaped operator.
RECURSIVE Parse(_, _)
Parse(re, acc) ==
    IF re = <<>> THEN [err |-> FALSE, prog |-> acc]
    ELSE LET c == Head(re) IN
         IF c = BAD THEN [err |-> TRUE, prog |-> <<>>]
         ELSE IF c = BS
              THEN IF Len(re) < 2 \/ re[2] \notin Special
                   THEN [err |-> TRUE, prog |-> <<>>]
                   ELSE Parse(SubSeq(re, 3, Len(re)), Append(acc, Tok("lit", re[2])))
         ELSE IF c = "^" THEN Parse(Tail(re), Append(acc, Tok("bol", "")))
         ELSE IF c = "$" THEN Parse(Tail(re), Append(acc, Tok("eol", "")))
         ELSE IF c = "." THEN Parse(Tail(re), Append(acc, Tok("any", "")))
         ELSE IF c = "*"
              THEN IF acc # <<>> /\ acc[Len(acc)].k = "any"
                   THEN Parse(Tail(re),
                              Append(SubSeq(acc, 1, Len(acc) - 1), Tok("anystar", "")))
                   ELSE [err |-> TRUE, prog |-> <<>>]
         ELSE IF c \in Special THEN [err |-> TRUE, prog |-> <<>>]
         ELSE Parse(Tail(re), Append(acc, Tok("lit", c)))

\* regexp.Compile("(?i)" + re): the program matches letters case-insensitively
Compile(re) == Parse(re, <<>>)

\* does prog match s from position i on (s is 1-based); `.` does not match
\* a line feed because the s flag is not set, and ^ $ are text anchors
\* because the m flag is not set
RECURSIVE MatchHere(_, _, _)
MatchHere(prog, s, i) ==
    IF prog = <<>> THEN TRUE
    ELSE LET t == Head(prog)
             rest == Tail(prog)
         IN CASE t.k = "bol" -> i = 1 /\ MatchHere(rest, s, i)
              [] t.k = "eol" -> i = Len(s) + 1 /\ MatchHere(rest, s, i)
              [] t.k = "lit" -> /\ i <= Len(s)
                                /\ Fold(s[i]) = Fold(t.c)
                                /\ MatchHere(rest, s, i + 1)
              [] t.k = "any" -> /\ i <= Len(s)
                                /\ s[i] # NL
                                /\ MatchHere(rest, s, i + 1)
              [] t.k = "anystar" ->
                    \E j \in i..(Len(s) + 1) :
                        /\ \A m \in i..(j - 1) : s[m] # NL
                        /\ MatchHere(rest, s, j)

\* (*Regexp).MatchString: an unanchored search
MatchString(prog, s) == \E i \in 1..(Len(s) + 1) : MatchHere(prog, s, i)

AnchorNoEnd(re) == <<"^">> \o re

\* regexPattern = "^" + regexPattern + "$"
Anchor(re) == <<"^">> \o re \o <<"$">>

\* the regular expression globMatch builds from a pattern
GlobRegex(p) ==
    Anchor(ReplaceAll(ReplaceAll(QuoteMeta(p), <<BS, "*">>, <<".", "*">>),
                      <<BS, "?">>, <<".">>))

globMatch(p, s) ==
    LET re == Compile(GlobRegex(p))
    IN IF re.err THEN EqualFold(p, s) ELSE MatchString(re.prog, s)

----------------------------------------------------------------------------
(* Bounds and input alphabets *)

MaxPatLen == 3
MaxStrLen == 3

\* characters a glob pattern is drawn from
PatChars == {"A", ".", "*", "?", BS, BAD}
\* characters a candidate string is drawn from
StrChars == {"a", ".", "/", NL, BS}

StringsUpTo(A, n) == UNION {[1..k -> A] : k \in 0..n}

----------------------------------------------------------------------------
(* The state of an invocation that has not started *)

ListIdle ==
    /\ pc = "idle"
    /\ pattern = <<>>
    /\ detail = FALSE
    /\ models = <<>>
    /\ ollamaModels = <<>>
    /\ primary = <<>>
    /\ merged = <<>>
    /\ filtered = <<>>
    /\ stdout = <<>>
    /\ stderr = <<>>
    /\ exitCode = -1
    /\ steps = <<>>
    /\ fetchErr = ""
    /\ ollamaErr = ""
    /\ termW = 0
    /\ tzOffset = 0
    /\ provArgs = <<>>

GlobIdle ==
    /\ gPc = "idle"
    /\ gPattern = <<>>
    /\ gStr = <<>>
    /\ gResult = FALSE

FnIdle ==
    /\ fnPc = "idle"
    /\ fnName = ""
    /\ fnArgs = <<>>
    /\ fnRet = <<>>

----------------------------------------------------------------------------
(* globMatch applied to every pattern and candidate within the bounds *)

InitGlob ==
    /\ ListIdle
    /\ FnIdle
    /\ gPc = "call"
    /\ gPattern \in StringsUpTo(PatChars, MaxPatLen)
    /\ gStr \in StringsUpTo(StrChars, MaxStrLen)
    /\ gResult = FALSE

GlobMatchCall ==
    /\ gPc = "call"
    /\ gResult' = globMatch(gPattern, gStr)
    /\ gPc' = "ret"
    /\ UNCHANGED <<gPattern, gStr>>
    /\ UNCHANGED listVars
    /\ UNCHANGED fnVars

NextGlob == GlobMatchCall

SpecGlob == InitGlob /\ [][NextGlob]_vars

----------------------------------------------------------------------------
(* Properties of globMatch *)

Range(s) == {s[i] : i \in DOMAIN s}

NoWildcard(p) == "*" \notin Range(p) /\ "?" \notin Range(p)

C2Examples ==
    /\ globMatch(<<"a", ".", "b">>, <<"a", ".", "b">>)
    /\ globMatch(<<"a", ".", "b">>, <<"A", ".", "B">>)
    /\ ~globMatch(<<"a", ".", "b">>, <<"a", "x", "b">>)

\* C2: a pattern with neither * nor ? (regex metacharacters included) matches
\* a candidate exactly when the two are equal ignoring case; "a.b" matches
\* "a.b" and "A.B" but not "axb".
C2_LiteralPatternIsEqualFold ==
    /\ C2Examples
    /\ (gPc = "ret" /\ NoWildcard(gPattern))
           => (gResult <=> EqualFold(gPattern, gStr))

\* a literal pattern with a metacharacter has matched a candidate that
\* differs from it in case only
C2_Witness ==
    /\ gPc = "ret"
    /\ gPattern = <<"A", ".", BS>>
    /\ gStr = <<"a", ".", BS>>
    /\ gResult

\* C3: the pattern "*" matches every string: the empty one, one with "/",
\* one with a line break.
C3_StarMatchesEverything ==
    (gPc = "ret" /\ gPattern = <<"*">>) => gResult

C4Examples ==
    /\ globMatch(<<"a", "?", "c">>, <<"a", "b", "c">>)
    /\ ~globMatch(<<"a", "?", "c">>, <<"a", "c">>)
    /\ ~globMatch(<<"a", "?", "c">>, <<"a", "b", "b", "c">>)
    /\ globMatch(<<"*", "g", "p", "t", "-", "4", "*">>, <<"o", "p", "e", "n", "a", "i", "/", "g", "p", "t", "-", "4", ".", "1">>)
    /\ ~globMatch(<<"g", "p", "t", "-", "4">>, <<"o", "p", "e", "n", "a", "i", "/", "g", "p", "t", "-", "4", ".", "1">>)
    /\ ~globMatch(<<"*", "g", "p", "t", "-", "4", "*">>, <<"o", "p", "e", "n", "a", "i", "/", "g", "p", "t", "-", "3", ".", "5">>)

\* the proper contiguous substrings of s
ProperSubstrings(s) ==
    {SubSeq(s, i, j) : i \in 1..(Len(s) + 1), j \in 0..Len(s)} \ {s}

\* C4: matching is anchored and ? takes exactly one character: a pattern
\* without * matches only candidates of its own length, and never a candidate
\* of which only a proper substring matches.
C4_AnchoredExactLength ==
    /\ C4Examples
    /\ (gPc = "ret" /\ "*" \notin Range(gPattern) /\ gResult)
           => Len(gStr) = Len(gPattern)
    /\ (gPc = "ret" /\ "*" \notin Range(gPattern) /\ gResult)
           => \A m \in ProperSubstrings(gStr) : ~globMatch(gPattern, m)

\* a pattern of a literal and two ? has matched a candidate of length three
C4_Witness ==
    /\ gPc = "ret"
    /\ gPattern = <<"?", "A", "?">>
    /\ gStr = <<"/", "a", ".">>
    /\ gResult

----------------------------------------------------------------------------
(* Records *)

\* the zero value of Model; OllamaDetails is a pointer, modelled as the
\* empty sequence (nil) or a one-element sequence.  The fields no code reads
\* are left out.
ZeroModel ==
    [ID |-> <<>>, Name |-> <<>>, Created |-> 0, Description |-> <<>>,
     ContextLength |-> 0,
     Architecture |-> [Modality |-> <<>>],
     Pricing |-> [Prompt |-> <<>>, Completion |-> <<>>],
     TopProvider |-> [MaxCompletionTokens |-> 0, IsModerated |-> FALSE],
     OllamaDetails |-> <<>>]

\* a Model with the given basic fields and zero values elsewhere
Model(id, name, created, desc, details) ==
    [ZeroModel EXCEPT !.ID = id, !.Name = name, !.Created = created,
                      !.Description = desc, !.OllamaDetails = details]

\* an OllamaModel as FetchOllamaModels decodes it
OllamaModel(name, modifiedAt, size, format, family, parameterSize, quant) ==
    [Name |-> name, ModifiedAt |-> modifiedAt, Size |-> size,
     Format |-> format, Family |-> family, ParameterSize |-> parameterSize,
     QuantizationLevel |-> quant]

\* strings.Index(s, c) for a one-character c: 0-based, -1 when absent
RECURSIVE IndexFrom(_, _, _)
IndexFrom(s, c, i) ==
    IF i > Len(s) THEN -1
    ELSE IF s[i] = c THEN i - 1
    ELSE IndexFrom(s, c, i + 1)

Index(s, c) == IndexFrom(s, c, 1)

Unknown == <<"U", "n", "k", "n", "o", "w", "n">>

\* an ExtractProvider that also cuts at a leading "/"
ExtractProviderAnySlash(modelID) ==
    LET idx == Index(modelID, "/")
    IN IF idx >= 0 THEN SubSeq(modelID, 1, idx) ELSE Unknown

ExtractProvider(modelID) ==
    LET idx == Index(modelID, "/")
    IN IF idx > 0 THEN SubSeq(modelID, 1, idx) ELSE Unknown

\* strings.Contains
Contains(s, sub) ==
    \E i \in 1..(Len(s) - Len(sub) + 1) : SubSeq(s, i, i + Len(sub) - 1) = sub

ToLower(s) == [i \in 1..Len(s) |-> Fold(s[i])]

\* the condition under which FilterModels appends a model
FilterKeepsWithDescription(model, pat) ==
    \/ globMatch(pat, model.ID)
    \/ globMatch(pat, model.Name)
    \/ EqualFold(pat, ExtractProvider(model.ID))
    \/ Contains(ToLower(model.Description), ToLower(pat))

FilterKeeps(model, pat) ==
    \/ globMatch(pat, model.ID)
    \/ globMatch(pat, model.Name)
    \/ EqualFold(pat, ExtractProvider(model.ID))

RECURSIVE FilterLoopPrepends(_, _, _, _)
FilterLoopPrepends(ms, pat, i, acc) ==
    IF i > Len(ms) THEN acc
    ELSE FilterLoopPrepends(ms, pat, i + 1,
                            IF FilterKeeps(ms[i], pat) THEN <<ms[i]>> \o acc ELSE acc)

\* the loop of FilterModels: `filtered` after the models from index i on
RECURSIVE FilterLoop(_, _, _, _)
FilterLoop(ms, pat, i, acc) ==
    IF i > Len(ms) THEN acc
    ELSE FilterLoop(ms, pat, i + 1,
                    IF FilterKeeps(ms[i], pat) THEN Append(acc, ms[i]) ELSE acc)

FilterModelsNoEarlyReturn(ms, pat) == FilterLoop(ms, pat, 1, <<>>)

FilterModels(ms, pat) ==
    IF pat = <<>> THEN ms ELSE FilterLoop(ms, pat, 1, <<>>)

\* the arrangements in which no model precedes one with a smaller Created
RECURSIVE AscendingOrders(_, _)
AscendingOrders(ms, idx) ==
    IF idx = {} THEN {<<>>}
    ELSE LET low == {i \in idx : \A j \in idx : ms[i].Created <= ms[j].Created}
         IN UNION {{<<ms[i]>> \o rest : rest \in AscendingOrders(ms, idx \ {i})}
                     : i \in low}

\* the orders sort.Slice may leave the models in: every arrangement in which
\* no model precedes one with a greater Created (sort.Slice is not stable)
RECURSIVE DescendingOrders(_, _)
DescendingOrders(ms, idx) ==
    IF idx = {} THEN {<<>>}
    ELSE LET top == {i \in idx : \A j \in idx : ms[i].Created >= ms[j].Created}
         IN UNION {{<<ms[i]>> \o rest : rest \in DescendingOrders(ms, idx \ {i})}
                     : i \in top}

SortModelsLeavesOrder(ms) == {ms}

SortModelsByCreatedDesc(ms) == DescendingOrders(ms, DOMAIN ms)

----------------------------------------------------------------------------
(* Formatting *)

CR == "\r"
SP == " "

Digits == <<"0", "1", "2", "3", "4", "5", "6", "7", "8", "9">>

\* fmt's %d of a non-negative integer
RECURSIVE NatToStr(_)
NatToStr(n) ==
    IF n < 10 THEN <<Digits[n + 1]>>
    ELSE NatToStr(n \div 10) \o <<Digits[(n % 10) + 1]>>

\* fmt's %d
IntToStr(n) == IF n < 0 THEN <<"-">> \o NatToStr(0 - n) ELSE NatToStr(n)

\* n in decimal, left-padded with zeros to at least w digits
RECURSIVE ZeroPad(_, _)
ZeroPad(s, w) == IF Len(s) >= w THEN s ELSE ZeroPad(<<"0">> \o s, w)

\* the offsets from UTC, in seconds, of the local time zones considered
LocalOffsets == {-18000, 32400}

\* the civil date of a day number counted from 1970-01-01 (proleptic
\* Gregorian calendar), as time.Time.Format("2006-01-02") prints it
CivilDate(days) ==
    LET z == days + 719468
        era == z \div 146097
        doe == z - era * 146097
        yoe == (doe - doe \div 1460 + doe \div 36524 - doe \div 146096) \div 365
        doy == doe - (365 * yoe + yoe \div 4 - yoe \div 100)
        mp == (5 * doy + 2) \div 153
        d == doy - (153 * mp + 2) \div 5 + 1
        m == IF mp < 10 THEN mp + 3 ELSE mp - 9
        y == yoe + era * 400 + (IF m <= 2 THEN 1 ELSE 0)
    IN ZeroPad(NatToStr(y), 4) \o <<"-">> \o ZeroPad(NatToStr(m), 2)
           \o <<"-">> \o ZeroPad(NatToStr(d), 2)

\* FormatDate in a time zone `offset` seconds east of UTC
FormatDate(timestamp, offset) == CivilDate((timestamp + offset) \div 86400)

\* UTF-8: a string is its sequence of bytes.  An ASCII byte is written as
\* its character; the two bytes of U+00E9 are "C3" "A9" and the three bytes
\* of U+FFFD are "EF" "BF" "BD".
Lead2 == {"C3"}
Lead3 == {"EF"}
Cont == {"A9", "BF", "BD"}
RuneError == <<"EF", "BF", "BD">>

\* utf8.DecodeRune on a non-empty s: its first character, given by its bytes,
\* and the number of bytes of s it takes; a byte that does not begin a
\* well-formed character decodes to U+FFFD and takes one byte
DecodeRune(s) ==
    IF s[1] \in Lead2 /\ Len(s) >= 2 /\ s[2] \in Cont
    THEN [rune |-> SubSeq(s, 1, 2), size |-> 2]
    ELSE IF s[1] \in Lead3 /\ Len(s) >= 3 /\ s[2] \in Cont /\ s[3] \in Cont
    THEN [rune |-> SubSeq(s, 1, 3), size |-> 3]
    ELSE IF s[1] \in Lead2 \cup Lead3 \cup Cont \cup {BAD}
    THEN [rune |-> RuneError, size |-> 1]
    ELSE [rune |-> <<s[1]>>, size |-> 1]

\* the first n characters of s (all of them if s has fewer)
RECURSIVE FirstRunes(_, _)
FirstRunes(s, n) ==
    IF s = <<>> \/ n <= 0 THEN <<>>
    ELSE LET d == DecodeRune(s)
         IN <<d.rune>> \o FirstRunes(SubSeq(s, d.size + 1, Len(s)), n - 1)

\* []rune(s): the characters of s
RECURSIVE Runes(_)
Runes(s) ==
    IF s = <<>> THEN <<>>
    ELSE LET d == DecodeRune(s)
         IN <<d.rune>> \o Runes(SubSeq(s, d.size + 1, Len(s)))

\* string(runes): the bytes of the characters, one after the other
RECURSIVE RunesToString(_)
RunesToString(runes) ==
    IF runes = <<>> THEN <<>> ELSE Head(runes) \o RunesToString(Tail(runes))

\* a folding that replaces CR and LF one byte at a time
FoldLineBreaksPerByte(text) ==
    ReplaceAll(ReplaceAll(text, <<CR>>, <<SP>>), <<NL>>, <<SP>>)

\* the three replacements that fold line breaks to spaces
FoldLineBreaks(text) ==
    ReplaceAll(ReplaceAll(ReplaceAll(text, <<CR, NL>>, <<SP>>), <<CR>>, <<SP>>),
               <<NL>>, <<SP>>)

\* the TruncateDescription of the older snapshot (src/unnamed/part_002),
\* which measures and cuts in bytes
TruncateDescriptionByBytes(desc, maxLen) ==
    LET folded == FoldLineBreaks(desc)
    IN IF Len(folded) <= maxLen THEN folded
       ELSE SubSeq(folded, 1, maxLen) \o <<".", ".">>

\* TruncateDescription for maxLen >= 0 (DisplayModels passes at least 30);
\* the length is counted, and the cut made, in characters
TruncateDescription(desc, maxLen) ==
    LET folded == FoldLineBreaks(desc)
        runes == Runes(folded)
    IN IF Len(runes) <= maxLen THEN folded
       ELSE RunesToString(SubSeq(runes, 1, maxLen)) \o <<".", ".">>

MinDescWidth == 30

\* a CalculateDescriptionWidth without the minimum
CalculateDescriptionWidthNoFloor(termWidth, modelWidth, providerWidth) ==
    termWidth - (modelWidth + providerWidth + 10 + 3 + 5)

\* a width computed without the safety margin
CalculateDescriptionWidthNoMargin(termWidth, modelWidth, providerWidth) ==
    LET descWidth == termWidth - (modelWidth + providerWidth + 10 + 3)
    IN IF descWidth < MinDescWidth THEN MinDescWidth ELSE descWidth

CalculateDescriptionWidth(termWidth, modelWidth, providerWidth) ==
    LET dateWidth == 10
        spacingWidth == 3
        safetyMargin == 5
        usedWidth == modelWidth + providerWidth + dateWidth + spacingWidth
                         + safetyMargin
        descWidth == termWidth - usedWidth
    IN IF descWidth < MinDescWidth THEN MinDescWidth ELSE descWidth

DefaultTermWidth == 120

\* what term.GetSize may report for standard output
ReportedTermWidths == {40}

\* the values GetTerminalWidth may return
GetTerminalWidth == ReportedTermWidths \cup {DefaultTermWidth}

\* a %s in place of the %-*s: no padding
PadNone(s, w) == s

\* fmt's %-*s: s padded on the right with spaces to at least w characters
\* (fmt counts characters, not bytes)
RECURSIVE PadRight(_, _)
PadRight(s, w) == IF Len(Runes(s)) >= w THEN s ELSE PadRight(Append(s, SP), w)

Max(a, b) == IF a > b THEN a ELSE b

RECURSIVE MaxOver(_, _)
MaxOver(lens, i) == IF i > Len(lens) THEN 0 ELSE Max(lens[i], MaxOver(lens, i + 1))

\* the lines DisplayModels prints for a terminal of termWidth columns in a
\* time zone `offset` seconds east of UTC
DisplayModels(ms, termWidth, offset) ==
    IF Len(ms) = 0 THEN <<>>
    ELSE LET maxModelWidth == MaxOver([i \in 1..Len(ms) |-> Len(ms[i].ID)], 1)
             maxProviderWidth ==
                 MaxOver([i \in 1..Len(ms) |-> Len(ExtractProvider(ms[i].ID))], 1)
             descWidth == CalculateDescriptionWidth(termWidth, maxModelWidth,
                                                    maxProviderWidth)
         IN [i \in 1..Len(ms) |->
                PadRight(ms[i].ID, maxModelWidth) \o <<SP>>
                    \o PadRight(ExtractProvider(ms[i].ID), maxProviderWidth) \o <<SP>>
                    \o FormatDate(ms[i].Created, offset) \o <<SP>>
                    \o TruncateDescription(ms[i].Description, descWidth)]

----------------------------------------------------------------------------
(* Numbers *)

GiB == 1073741824

\* r * m as [q, r] with r * m = q * GiB + r, for 0 <= r < GiB and 0 <= m <= 10,
\* computed without leaving 32 bits
MulDivGiB(r, m) ==
    LET half == 32768
        a == r \div half
        b == r % half
        c == (a * m) \div half
        e == (a * m) % half
        low == e * half + b * m
    IN [q |-> c + low \div GiB, r |-> low % GiB]

RECURSIVE ScaleGiB(_, _, _)
ScaleGiB(acc, r, d) ==
    IF d = 0 THEN [n |-> acc, r |-> r]
    ELSE LET p == MulDivGiB(r, 10) IN ScaleGiB(acc * 10 + p.q, p.r, d - 1)

\* a non-negative integer n of 10^-d units printed with d decimals
Fixed(n, d) ==
    LET str == ZeroPad(NatToStr(n), d + 1)
    IN IF d = 0 THEN str
       ELSE SubSeq(str, 1, Len(str) - d) \o <<".">>
                \o SubSeq(str, Len(str) - d + 1, Len(str))

\* fmt's %.<d>f of float64(size) / (1024 * 1024 * 1024) for 0 <= size < 2^31:
\* the quotient is exact in float64, and is rounded half to even
FormatGiB(size, d) ==
    LET s == ScaleGiB(size \div GiB, size % GiB, d)
        up == s.r > GiB \div 2 \/ (s.r = GiB \div 2 /\ s.n % 2 = 1)
    IN Fixed(IF up THEN s.n + 1 ELSE s.n, d)

buildOllamaDescription(om) ==
    LET d1 == IF om.Family # <<>> THEN om.Family ELSE <<>>
        d2 == IF om.ParameterSize # <<>>
              THEN (IF d1 # <<>> THEN d1 \o <<SP>> ELSE d1) \o om.ParameterSize
              ELSE d1
        d3 == IF om.QuantizationLevel # <<>>
              THEN (IF d2 # <<>> THEN d2 \o <<SP>> ELSE d2)
                       \o <<"(">> \o om.QuantizationLevel \o <<")">>
              ELSE d2
        d4 == IF om.Size > 0
              THEN (IF d3 # <<>> THEN d3 \o <<SP, "-", SP>> ELSE d3)
                       \o FormatGiB(om.Size, 1) \o <<SP, "G", "B">>
              ELSE d3
    IN IF d4 = <<>> THEN <<"O", "l", "l", "a", "m", "a", " ", "l", "o", "c", "a", "l", " ", "m", "o", "d", "e", "l">> ELSE d4

OllamaPrefix == <<"o", "l", "l", "a", "m", "a", "/">>

\* a conversion that leaves OllamaDetails nil
ConvertOllamaModelNoDetails(om) ==
    Model(OllamaPrefix \o om.Name, om.Name, om.ModifiedAt,
          buildOllamaDescription(om), <<>>)

\* the unified Model FetchOllamaModels builds from one OllamaModel
ConvertOllamaModel(om) ==
    Model(OllamaPrefix \o om.Name, om.Name, om.ModifiedAt,
          buildOllamaDescription(om),
          <<[Size |-> om.Size, Format |-> om.Format, Family |-> om.Family,
             ParameterSize |-> om.ParameterSize,
             QuantizationLevel |-> om.QuantizationLevel]>>)

\* the conversion loop of FetchOllamaModels
ConvertOllamaModels(oms) == [i \in 1..Len(oms) |-> ConvertOllamaModel(oms[i])]

----------------------------------------------------------------------------
(* The verbose renderer *)

TAB == "\t"

\* FormatNumber: the loop runs over the characters of fmt's %d, i counted
\* from 0
FormatNumber(n) ==
    LET str == IntToStr(n)
        RECURSIVE Loop(_)
        Loop(i) ==
            IF i >= Len(str) THEN <<>>
            ELSE (IF i > 0 /\ (Len(str) - i) % 3 = 0 THEN <<",">> ELSE <<>>)
                     \o <<str[i + 1]>> \o Loop(i + 1)
    IN Loop(0)

DigitValue(c) == CHOOSE d \in 0..9 : Digits[d + 1] = c

IsDigit(c) == \E d \in 1..10 : Digits[d] = c

\* a plain decimal: digits with at most one point and at least one digit
IsDecimal(s) ==
    /\ \A i \in 1..Len(s) : IsDigit(s[i]) \/ s[i] = "."
    /\ Cardinality({i \in 1..Len(s) : s[i] = "."}) <= 1
    /\ \E i \in 1..Len(s) : IsDigit(s[i])

RECURSIVE DigitsToNat(_, _)
DigitsToNat(s, acc) ==
    IF s = <<>> THEN acc
    ELSE DigitsToNat(Tail(s), IF Head(s) = "." THEN acc ELSE acc * 10 + DigitValue(Head(s)))

RECURSIVE Pow10(_)
Pow10(k) == IF k = 0 THEN 1 ELSE 10 * Pow10(k - 1)

\* n / 10^k rounded half to even
RoundDiv10(n, k) ==
    LET q == n \div Pow10(k)
        r == n % Pow10(k)
    IN IF 2 * r > Pow10(k) \/ (2 * r = Pow10(k) /\ q % 2 = 1) THEN q + 1 ELSE q

\* FormatPrice for a price that is "", a plain decimal, or no number at all
\* (fmt.Sscanf then leaves p at 0); the decimal is taken exactly
FormatPrice(price) ==
    IF price = <<>> \/ price = <<"0">> THEN <<"0">>
    ELSE LET ok == IsDecimal(price)
             pt == Index(price, ".")
             k == IF ok /\ pt >= 0 THEN Len(price) - pt - 1 ELSE 0
             n == IF ok THEN DigitsToNat(price, 0) ELSE 0
             \* p1k = n * 1000 / 10^k, printed with d decimals
             Scaled(d) == IF 3 + d >= k THEN n * Pow10(3 + d - k)
                          ELSE RoundDiv10(n, k - 3 - d)
             atLeast1 == IF k <= 3 THEN n * Pow10(3 - k) >= 1 ELSE n >= Pow10(k - 3)
             atLeast001 == IF k <= 5 THEN n * Pow10(5 - k) >= 1 ELSE n >= Pow10(k - 5)
         IN IF atLeast1 THEN Fixed(Scaled(3), 3)
            ELSE IF atLeast001 THEN Fixed(Scaled(4), 4)
            ELSE Fixed(Scaled(6), 6)

IsSpace(c) == c \in {SP, TAB, NL, CR}

\* strings.Fields: the maximal runs of non-space characters
RECURSIVE Fields(_, _)
Fields(s, cur) ==
    IF s = <<>> THEN (IF cur = <<>> THEN <<>> ELSE <<cur>>)
    ELSE IF IsSpace(Head(s))
         THEN (IF cur = <<>> THEN <<>> ELSE <<cur>>) \o Fields(Tail(s), <<>>)
         ELSE Fields(Tail(s), Append(cur, Head(s)))

\* a loop that forgets the separating space when it measures the line
RECURSIVE WrapLoopNoSeparator(_, _, _, _)
WrapLoopNoSeparator(words, width, currentLine, lines) ==
    IF words = <<>> THEN Append(lines, currentLine)
    ELSE IF Len(currentLine) + Len(Head(words)) <= width
         THEN WrapLoopNoSeparator(Tail(words), width,
                                  currentLine \o <<SP>> \o Head(words), lines)
         ELSE WrapLoopNoSeparator(Tail(words), width, Head(words),
                                  Append(lines, currentLine))

\* a loop that breaks the line one column early
RECURSIVE WrapLoopStrict(_, _, _, _)
WrapLoopStrict(words, width, currentLine, lines) ==
    IF words = <<>> THEN Append(lines, currentLine)
    ELSE IF Len(currentLine) + 1 + Len(Head(words)) < width
         THEN WrapLoopStrict(Tail(words), width,
                             currentLine \o <<SP>> \o Head(words), lines)
         ELSE WrapLoopStrict(Tail(words), width, Head(words),
                             Append(lines, currentLine))

\* the loop of WrapText over words[1:]
RECURSIVE WrapLoop(_, _, _, _)
WrapLoop(words, width, currentLine, lines) ==
    IF words = <<>> THEN Append(lines, currentLine)
    ELSE IF Len(currentLine) + 1 + Len(Head(words)) <= width
         THEN WrapLoop(Tail(words), width, currentLine \o <<SP>> \o Head(words), lines)
         ELSE WrapLoop(Tail(words), width, Head(words), Append(lines, currentLine))

WrapText(text, width) ==
    LET words == Fields(FoldLineBreaks(text), <<>>)
    IN IF Len(words) = 0 THEN <<>>
       ELSE WrapLoop(Tail(words), width, Head(words), <<>>)

\* the fixed texts of the verbose block
LabelId == <<"M", "o", "d", "e", "l", " ", "I", "D", ":", " ", " ", " ", " ", " ", " ", " ", " ", " ", " ">>
LabelName == <<"N", "a", "m", "e", ":", " ", " ", " ", " ", " ", " ", " ", " ", " ", " ", " ", " ", " ", " ">>
LabelProv == <<"P", "r", "o", "v", "i", "d", "e", "r", ":", " ", " ", " ", " ", " ", " ", " ", " ", " ", " ">>
LabelCreated == <<"C", "r", "e", "a", "t", "e", "d", ":", " ", " ", " ", " ", " ", " ", " ", " ", " ", " ", " ">>
LabelCtx == <<"C", "o", "n", "t", "e", "x", "t", " ", "L", "e", "n", "g", "t", "h", ":", " ", " ", " ", " ">>
LabelTokens == <<" ", "t", "o", "k", "e", "n", "s">>
LabelMaxc == <<"M", "a", "x", " ", "C", "o", "m", "p", "l", "e", "t", "i", "o", "n", ":", " ", " ", " ", " ">>
LabelModality == <<"M", "o", "d", "a", "l", "i", "t", "y", ":", " ", " ", " ", " ", " ", " ", " ", " ", " ", " ">>
LabelPricing == <<"P", "r", "i", "c", "i", "n", "g", ":", " ", " ", " ", " ", " ", " ", " ", " ", " ", " ", " ", "$">>
LabelPrompt == <<" ", "/", " ", "1", "K", " ", "p", "r", "o", "m", "p", "t", " ", "t", "o", "k", "e", "n", "s", ",", " ", "$">>
LabelCompletion == <<" ", "/", " ", "1", "K", " ", "c", "o", "m", "p", "l", "e", "t", "i", "o", "n", " ", "t", "o", "k", "e", "n", "s">>
LabelModeration == <<"M", "o", "d", "e", "r", "a", "t", "i", "o", "n", ":", " ", " ", " ", " ", " ", " ", " ", " ", "E", "n", "a", "b", "l", "e", "d">>
LabelFamily == <<"M", "o", "d", "e", "l", " ", "F", "a", "m", "i", "l", "y", ":", " ", " ", " ", " ", " ", " ">>
LabelPsize == <<"P", "a", "r", "a", "m", "e", "t", "e", "r", " ", "S", "i", "z", "e", ":", " ", " ", " ", " ">>
LabelQuant == <<"Q", "u", "a", "n", "t", "i", "z", "a", "t", "i", "o", "n", ":", " ", " ", " ", " ", " ", " ">>
LabelFormat == <<"F", "o", "r", "m", "a", "t", ":", " ", " ", " ", " ", " ", " ", " ", " ", " ", " ", " ", " ">>
LabelMsize == <<"M", "o", "d", "e", "l", " ", "S", "i", "z", "e", ":", " ", " ", " ", " ", " ", " ", " ", " ">>
LabelDesc == <<"D", "e", "s", "c", "r", "i", "p", "t", "i", "o", "n", ":">>

RuleWidth == 80
MinWrapWidth == 40

Rule == [i \in 1..RuleWidth |-> "="]

\* the lines DisplayModelsDetailed prints for one model
DetailBlock(model, termWidth, offset) ==
    LET wrapWidth == IF termWidth - 4 < MinWrapWidth THEN MinWrapWidth ELSE termWidth - 4
        od == model.OllamaDetails
    IN <<Rule,
         LabelId \o model.ID,
         LabelName \o model.Name,
         LabelProv \o ExtractProvider(model.ID),
         LabelCreated \o FormatDate(model.Created, offset)>>
       \o (IF model.ContextLength > 0
           THEN <<LabelCtx \o FormatNumber(model.ContextLength) \o LabelTokens>>
           ELSE <<>>)
       \o (IF model.TopProvider.MaxCompletionTokens > 0
           THEN <<LabelMaxc \o FormatNumber(model.TopProvider.MaxCompletionTokens) \o LabelTokens>>
           ELSE <<>>)
       \o (IF model.Architecture.Modality # <<>>
           THEN <<LabelModality \o model.Architecture.Modality>>
           ELSE <<>>)
       \o (IF model.Pricing.Prompt # <<>> /\ model.Pricing.Prompt # <<"0">>
           THEN <<LabelPricing \o FormatPrice(model.Pricing.Prompt) \o LabelPrompt
                      \o FormatPrice(model.Pricing.Completion) \o LabelCompletion>>
           ELSE <<>>)
       \o (IF model.TopProvider.IsModerated THEN <<LabelModeration>> ELSE <<>>)
       \o (IF od # <<>>
           THEN (IF od[1].Family # <<>> THEN <<LabelFamily \o od[1].Family>> ELSE <<>>)
                \o (IF od[1].ParameterSize # <<>>
                    THEN <<LabelPsize \o od[1].ParameterSize>> ELSE <<>>)
                \o (IF od[1].QuantizationLevel # <<>>
                    THEN <<LabelQuant \o od[1].QuantizationLevel>> ELSE <<>>)
                \o (IF od[1].Format # <<>> THEN <<LabelFormat \o od[1].Format>> ELSE <<>>)
                \o (IF od[1].Size > 0
                    THEN <<LabelMsize \o FormatGiB(od[1].Size, 2) \o <<SP, "G", "B">>>>
                    ELSE <<>>)
           ELSE <<>>)
       \o (IF model.Description # <<>>
           THEN LET wrapped == WrapText(model.Description, wrapWidth)
                IN <<LabelDesc>> \o [i \in 1..Len(wrapped) |-> <<SP, SP>> \o wrapped[i]]
           ELSE <<>>)
       \o <<Rule>>

\* a loop that closes every block with a blank line
RECURSIVE DetailLoopBlankAfter(_, _, _, _)
DetailLoopBlankAfter(ms, i, termWidth, offset) ==
    IF i > Len(ms) THEN <<>>
    ELSE DetailBlock(ms[i], termWidth, offset)
             \o <<<<>>>>
             \o DetailLoopBlankAfter(ms, i + 1, termWidth, offset)

\* the lines DisplayModelsDetailed prints; a blank line is the empty sequence
RECURSIVE DetailLoop(_, _, _, _)
DetailLoop(ms, i, termWidth, offset) ==
    IF i > Len(ms) THEN <<>>
    ELSE (IF i > 1 THEN <<<<>>>> ELSE <<>>)
             \o DetailBlock(ms[i], termWidth, offset)
             \o DetailLoop(ms, i + 1, termWidth, offset)

\* a verbose renderer that reports an empty list
DisplayModelsDetailedNotesEmpty(ms, termWidth, offset) ==
    IF Len(ms) = 0 THEN <<<<"N", "o", " ", "m", "o", "d", "e", "l", "s", " ", "f", "o", "u", "n", "d", ".">>>> ELSE DetailLoop(ms, 1, termWidth, offset)

DisplayModelsDetailed(ms, termWidth, offset) ==
    IF Len(ms) = 0 THEN <<>> ELSE DetailLoop(ms, 1, termWidth, offset)

----------------------------------------------------------------------------
(* Inputs of the list invocation *)

MaxPrimary == 2
MaxOllama == 1

\* records the OpenRouter API may return
P1 == [Model(<<"o", "p", "e", "n", "a", "i", "/", "g", "p", "t", "-", "4", ".", "1">>, <<"G", "P", "T", "-", "4", ".", "1">>, 1000, <<"a", "n", "t", "h", "r", "o", "p", "i", "c">>, <<>>)
          EXCEPT !.ContextLength = 128000,
                 !.Architecture = [Modality |-> <<"t", "e", "x", "t", "-", ">", "t", "e", "x", "t">>],
                 !.Pricing = [Prompt |-> <<"0", ".", "0", "0", "0", "0", "0", "2">>, Completion |-> <<"0", ".", "0", "0", "0", "0", "0", "8">>],
                 !.TopProvider = [MaxCompletionTokens |-> 32768, IsModerated |-> TRUE]]
P2 == Model(<<"a", "n", "t", "h", "r", "o", "p", "i", "c", "/", "c", "l", "a", "u", "d", "e">>, <<"C", "l", "a", "u", "d", "e">>, 2000, <<"C", "h", "a", "t", " ", "m", "o", "d", "e", "l", "\n", "w", "i", "t", "h", " ", "l", "o", "n", "g", " ", "c", "o", "n", "t", "e", "x", "t", " ", "a", "n", "d", " ", "v", "i", "s", "i", "o", "n">>, <<>>)
P3 == Model(<<"o", "l", "l", "a", "m", "a", "/", "m">>, <<"m">>, 2000, <<>>, <<>>)
P4 == [Model(<<"s", "o", "l", "o">>, <<"x", "/", "y">>, 1000, <<>>, <<>>)
          EXCEPT !.Pricing = [Prompt |-> <<"0">>, Completion |-> <<>>]]

PrimaryCatalog == {P1, P2, P3, P4}

\* records the Ollama API may return
O1 == OllamaModel(<<"m">>, 2000, 1610612736, <<"g", "g", "u", "f">>, <<"l", "l", "a", "m", "a">>, <<"7", "B">>, <<"Q", "4", "_", "0">>)
O2 == OllamaModel(<<"q">>, 3000, 0, <<>>, <<>>, <<>>, <<>>)

OllamaCatalog == {O1, O2}

\* the positional argument; the empty sequence when there is none
Patterns == {<<>>, <<"a", "n", "t", "h", "r", "o", "p", "i", "c", "/", "*">>, <<"A", "n", "t", "h", "r", "o", "p", "i", "c">>, <<"o", "l", "l", "a", "m", "a", "/", "*">>, <<"x", "/", "?">>, <<"z", "z", "z">>}

\* the ways a fetch can fail: http.Get, the status check, io.ReadAll,
\* json.Unmarshal
FetchFailures == {"transport", "status", "read", "json"}

ErrorLine(cause) ==
    <<"E", "r", "r", "o", "r", ":", " ">> \o (CASE cause = "transport" -> <<"f", "a", "i", "l", "e", "d", " ", "t", "o", " ", "f", "e", "t", "c", "h", " ", "m", "o", "d", "e", "l", "s">>
                  [] cause = "status" -> <<"A", "P", "I", " ", "r", "e", "t", "u", "r", "n", "e", "d", " ", "s", "t", "a", "t", "u", "s">>
                  [] cause = "read" -> <<"f", "a", "i", "l", "e", "d", " ", "t", "o", " ", "r", "e", "a", "d", " ", "r", "e", "s", "p", "o", "n", "s", "e">>
                  [] cause = "json" -> <<"f", "a", "i", "l", "e", "d", " ", "t", "o", " ", "p", "a", "r", "s", "e", " ", "J", "S", "O", "N">>)

----------------------------------------------------------------------------
(* listModelsCommand *)

Init ==
    /\ pc = "start"
    /\ pattern \in Patterns
    /\ detail \in BOOLEAN
    /\ models = <<>>
    /\ ollamaModels = <<>>
    /\ primary = <<>>
    /\ merged = <<>>
    /\ filtered = <<>>
    /\ stdout = <<>>
    /\ stderr = <<>>
    /\ exitCode = -1
    /\ steps = <<>>
    /\ fetchErr = ""
    /\ ollamaErr = ""
    /\ termW = 0
    /\ tzOffset = 0
    /\ provArgs = <<>>
    /\ GlobIdle
    /\ FnIdle

\* models, err := FetchModels() with err == nil
FetchModelsOk ==
    /\ pc = "start"
    /\ \E data \in StringsUpTo(PrimaryCatalog, MaxPrimary) :
          /\ models' = data
          /\ primary' = data
    /\ steps' = Append(steps, "FetchModels")
    /\ pc' = "fetched"
    /\ UNCHANGED <<pattern, detail, ollamaModels, merged, filtered, stdout, stderr,
                   exitCode, fetchErr, ollamaErr, termW, tzOffset>>
    /\ UNCHANGED globVars
    /\ UNCHANGED fnVars
    /\ UNCHANGED provArgs

FetchModelsErrContinues ==
    /\ pc = "start"
    /\ \E cause \in FetchFailures :
          /\ fetchErr' = cause
          /\ stderr' = Append(stderr, ErrorLine(cause))
    /\ steps' = Append(steps, "FetchModels")
    /\ pc' = "fetched"
    /\ UNCHANGED <<pattern, detail, models, ollamaModels, primary, merged, filtered,
                   stdout, exitCode, ollamaErr, termW, tzOffset>>
    /\ UNCHANGED globVars
    /\ UNCHANGED fnVars
    /\ UNCHANGED provArgs

\* FetchModels returns an error: the message goes to stderr and os.Exit(1)
FetchModelsErr ==
    /\ pc = "start"
    /\ \E cause \in FetchFailures :
          /\ fetchErr' = cause
          /\ stderr' = Append(stderr, ErrorLine(cause))
    /\ steps' = Append(steps, "FetchModels")
    /\ exitCode' = 1
    /\ pc' = "exited"
    /\ UNCHANGED <<pattern, detail, models, ollamaModels, primary, merged, filtered,
                   stdout, ollamaErr, termW, tzOffset>>
    /\ UNCHANGED globVars
    /\ UNCHANGED fnVars
    /\ UNCHANGED provArgs

\* ollamaModels := FetchOllamaModels(...) when the response is read and parsed
FetchOllamaOk ==
    /\ pc = "fetched"
    /\ \E resp \in StringsUpTo(OllamaCatalog, MaxOllama) :
          ollamaModels' = ConvertOllamaModels(resp)
    /\ steps' = Append(steps, "FetchOllamaModels")
    /\ pc' = "ollamaFetched"
    /\ UNCHANGED <<pattern, detail, models, primary, merged, filtered, stdout, stderr,
                   exitCode, fetchErr, ollamaErr, termW, tzOffset>>
    /\ UNCHANGED globVars
    /\ UNCHANGED fnVars
    /\ UNCHANGED provArgs

FetchOllamaFailReported ==
    /\ pc = "fetched"
    /\ \E cause \in FetchFailures :
          /\ ollamaErr' = cause
          /\ stderr' = Append(stderr, ErrorLine(cause))
    /\ ollamaModels' = <<>>
    /\ steps' = Append(steps, "FetchOllamaModels")
    /\ pc' = "ollamaFetched"
    /\ UNCHANGED <<pattern, detail, models, primary, merged, filtered, stdout,
                   exitCode, fetchErr, termW, tzOffset>>
    /\ UNCHANGED globVars
    /\ UNCHANGED fnVars
    /\ UNCHANGED provArgs

\* FetchOllamaModels gives up (client.Get fails or times out, status is not
\* 200, the body cannot be read or parsed) and returns []Model{}
FetchOllamaFail ==
    /\ pc = "fetched"
    /\ \E cause \in FetchFailures : ollamaErr' = cause
    /\ ollamaModels' = <<>>
    /\ steps' = Append(steps, "FetchOllamaModels")
    /\ pc' = "ollamaFetched"
    /\ UNCHANGED <<pattern, detail, models, primary, merged, filtered, stdout, stderr,
                   exitCode, fetchErr, termW, tzOffset>>
    /\ UNCHANGED globVars
    /\ UNCHANGED fnVars
    /\ UNCHANGED provArgs

RECURSIVE AppendNewIDs(_, _)
AppendNewIDs(a, b) ==
    IF b = <<>> THEN a
    ELSE AppendNewIDs(IF \E i \in 1..Len(a) : a[i].ID = Head(b).ID
                      THEN a ELSE Append(a, Head(b)),
                      Tail(b))

\* append(models, ollamaModels...)
AppendModels(a, b) == a \o b

\* models = append(models, ollamaModels...)
Merge ==
    /\ pc = "ollamaFetched"
    /\ models' = AppendModels(models, ollamaModels)
    /\ merged' = models'
    /\ steps' = Append(steps, "append")
    /\ pc' = "merged"
    /\ UNCHANGED <<pattern, detail, ollamaModels, primary, filtered, stdout, stderr,
                   exitCode, fetchErr, ollamaErr, termW, tzOffset>>
    /\ UNCHANGED globVars
    /\ UNCHANGED fnVars
    /\ UNCHANGED provArgs

\* models = FilterModels(models, pattern)
Filter ==
    /\ pc = "merged"
    /\ models' = FilterModels(models, pattern)
    /\ filtered' = models'
    /\ steps' = Append(steps, "FilterModels")
    /\ pc' = "filtered"
    /\ UNCHANGED <<pattern, detail, ollamaModels, primary, merged, stdout, stderr,
                   exitCode, fetchErr, ollamaErr, termW, tzOffset>>
    /\ UNCHANGED globVars
    /\ UNCHANGED fnVars
    /\ UNCHANGED provArgs

\* SortModelsByCreatedDesc(models)
Sort ==
    /\ pc = "filtered"
    /\ models' \in SortModelsByCreatedDesc(models)
    /\ steps' = Append(steps, "SortModelsByCreatedDesc")
    /\ pc' = "sorted"
    /\ UNCHANGED <<pattern, detail, ollamaModels, primary, merged, filtered, stdout,
                   stderr, exitCode, fetchErr, ollamaErr, termW, tzOffset>>
    /\ UNCHANGED globVars
    /\ UNCHANGED fnVars
    /\ UNCHANGED provArgs

\* DisplayModels(models), then the command and main return
DisplayCompact ==
    /\ pc = "sorted"
    /\ ~detail
    /\ IF Len(models) = 0
       THEN UNCHANGED <<termW, tzOffset>>
       ELSE termW' \in GetTerminalWidth /\ tzOffset' \in LocalOffsets
    /\ stdout' = stdout \o DisplayModels(models, termW', tzOffset')
    /\ steps' = Append(steps, "DisplayModels")
    /\ exitCode' = 0
    /\ pc' = "done"
    /\ UNCHANGED <<pattern, detail, models, ollamaModels, primary, merged, filtered,
                   stderr, fetchErr, ollamaErr>>
    /\ UNCHANGED globVars
    /\ UNCHANGED fnVars
    /\ UNCHANGED provArgs

\* DisplayModelsDetailed(models), then the command and main return; the
\* terminal keeps one width during the call
DisplayDetailed ==
    /\ pc = "sorted"
    /\ detail
    /\ IF Len(models) = 0
       THEN UNCHANGED <<termW, tzOffset>>
       ELSE /\ tzOffset' \in LocalOffsets
            /\ IF \E i \in 1..Len(models) : models[i].Description # <<>>
               THEN termW' \in GetTerminalWidth
               ELSE UNCHANGED termW
    /\ stdout' = stdout \o DisplayModelsDetailed(models, termW', tzOffset')
    /\ steps' = Append(steps, "DisplayModelsDetailed")
    /\ exitCode' = 0
    /\ pc' = "done"
    /\ UNCHANGED <<pattern, detail, models, ollamaModels, primary, merged, filtered,
                   stderr, fetchErr, ollamaErr>>
    /\ UNCHANGED globVars
    /\ UNCHANGED fnVars
    /\ UNCHANGED provArgs

Next ==
    \/ FetchModelsOk
    \/ FetchModelsErr
    \/ FetchOllamaOk
    \/ FetchOllamaFail
    \/ Merge
    \/ Filter
    \/ Sort
    \/ DisplayCompact
    \/ DisplayDetailed

Spec == Init /\ [][Next]_vars

----------------------------------------------------------------------------
(* Properties of the list invocation *)

HasProvider(model, pat) == EqualFold(pat, ExtractProvider(model.ID))

\* FilterModels on the two records of the end-to-end scenario
C1Example ==
    LET a == Model(<<"o", "p", "e", "n", "a", "i", "/", "g", "p", "t", "-", "4", ".", "1">>, <<>>, 1000, <<>>, <<>>)
        b == Model(<<"a", "n", "t", "h", "r", "o", "p", "i", "c", "/", "c", "l", "a", "u", "d", "e">>, <<>>, 2000, <<>>, <<>>)
    IN FilterModels(<<a, b>>, <<"a", "n", "t", "h", "r", "o", "p", "i", "c", "/", "*">>) = <<b>>

\* C1: with a non-empty pattern a record is kept if and only if the pattern
\* glob-matches its ID or its Name or equals its provider tag ignoring case;
\* the description is never consulted.  Read when FilterModels has returned.
C1_UnifiedSearchKeeps ==
    /\ C1Example
    /\ (pc = "filtered" /\ pattern # <<>>) =>
          /\ \A i \in 1..Len(merged) :
                (merged[i] \in Range(filtered)) <=>
                    \/ globMatch(pattern, merged[i].ID)
                    \/ globMatch(pattern, merged[i].Name)
                    \/ HasProvider(merged[i], pattern)
          /\ \A i \in 1..Len(merged) : \A d \in {<<>>, pattern} :
                (merged[i] \in Range(filtered)) <=>
                    (FilterModels(<<[merged[i] EXCEPT !.Description = d]>>, pattern)
                        # <<>>)

\* the pattern "Anthropic" has kept anthropic/claude for its provider tag and
\* dropped openai/gpt-4.1, whose description is "anthropic"
C1_Witness ==
    /\ pc = "filtered"
    /\ pattern = <<"A", "n", "t", "h", "r", "o", "p", "i", "c">>
    /\ merged = <<P1, P2>>
    /\ filtered = <<P2>>

IsDescending(ms) ==
    \A i \in 1..(Len(ms) - 1) : ms[i].Created >= ms[i + 1].Created

\* how often record r occurs in ms
Count(ms, r) == Cardinality({i \in 1..Len(ms) : ms[i] = r})

IsPermutation(a, b) ==
    /\ Len(a) = Len(b)
    /\ \A r \in Range(a) \cup Range(b) : Count(a, r) = Count(b, r)

\* the records FilterModels must return, written without its loop
Selected(ms, pat) ==
    SelectSeq(ms, LAMBDA r : pat = <<>> \/ globMatch(pat, r.ID)
                                 \/ globMatch(pat, r.Name) \/ HasProvider(r, pat))

RenderCall == IF detail THEN "DisplayModelsDetailed" ELSE "DisplayModels"

\* the records the printed lines show, read back from stdout
RenderedIDs ==
    IF detail
    THEN LET idLines == SelectSeq(stdout, LAMBDA l : HasPrefix(l, LabelId))
         IN [i \in 1..Len(idLines) |->
                SubSeq(idLines[i], Len(LabelId) + 1, Len(idLines[i]))]
    ELSE stdout

\* C5: in a successful list invocation the steps happen once each, in the
\* order primary fetch, secondary fetch, merge, filter, sort, render, and what
\* is rendered is a Created-descending arrangement of the filter result of
\* the primary records followed by the secondary records.
C5_PipelineOrder ==
    (pc = "done" /\ exitCode = 0) =>
        /\ steps = <<"FetchModels", "FetchOllamaModels", "append", "FilterModels",
                     "SortModelsByCreatedDesc", RenderCall>>
        /\ IsDescending(models)
        /\ IsPermutation(models, Selected(primary \o ollamaModels, pattern))
        /\ Len(RenderedIDs) = Len(models)
        /\ \A i \in 1..Len(models) :
              IF detail THEN RenderedIDs[i] = models[i].ID
              ELSE HasPrefix(RenderedIDs[i], models[i].ID)

\* a run that fetched both sources, kept two of three records and printed the
\* newer one first although it was fetched last
C5_Witness ==
    /\ pc = "done"
    /\ exitCode = 0
    /\ primary = <<P1, P3>>
    /\ Len(ollamaModels) = 1
    /\ ollamaModels[1].Created > P3.Created
    /\ pattern = <<"o", "l", "l", "a", "m", "a", "/", "*">>
    /\ Len(models) = 2
    /\ models[1] = ollamaModels[1]
    /\ Len(stdout) = 2

\* C6: when the primary fetch fails the invocation writes an error to stderr
\* and ends with status 1; the secondary fetch is not attempted, nothing is
\* filtered, sorted or written to stdout, and the fetch is not retried.
C6_PrimaryFailureIsFatal ==
    (fetchErr # "") =>
        /\ pc = "exited"
        /\ exitCode = 1
        /\ Len(stderr) = 1
        /\ HasPrefix(stderr[1], <<"E", "r", "r", "o", "r", ":", " ">>)
        /\ steps = <<"FetchModels">>
        /\ stdout = <<>>
        /\ ollamaModels = <<>> /\ ollamaErr = ""
        /\ merged = <<>> /\ filtered = <<>> /\ models = <<>>
        /\ ~ ENABLED Next

\* the API answered with a status other than 200 and the process has exited
C6_Witness ==
    /\ fetchErr = "status"
    /\ pc = "exited"
    /\ exitCode = 1
    /\ stderr # <<>>

\* C7: a failed secondary fetch yields an empty sequence; the invocation goes
\* on, renders what it renders for an empty secondary source (the primary
\* records only), writes nothing to stderr and exits 0.
C7_SecondaryFailureIsSilent ==
    (ollamaErr # "") =>
        /\ ollamaModels = <<>>
        /\ stderr = <<>>
        /\ exitCode \in {-1, 0}
        /\ pc # "exited"
        /\ (pc \in {"merged", "filtered", "sorted", "done"}) => merged = primary
        /\ (pc = "done") =>
              /\ exitCode = 0
              /\ IsDescending(models)
              /\ IsPermutation(models, Selected(primary, pattern))
              /\ stdout \in
                    {(IF detail THEN DisplayModelsDetailed(ms, termW, tzOffset)
                      ELSE DisplayModels(ms, termW, tzOffset))
                        : ms \in SortModelsByCreatedDesc(
                                    FilterModels(AppendModels(primary, <<>>), pattern))}

\* the Ollama server timed out and the two primary records were printed
C7_Witness ==
    /\ ollamaErr = "transport"
    /\ pc = "done"
    /\ exitCode = 0
    /\ primary = <<P1, P2>>
    /\ Len(stdout) >= 2
    /\ stderr = <<>>

\* C8: the merged sequence is the primary records in fetched order followed
\* by the secondary records in fetched order; nothing is dropped, so an id
\* both sources emit appears twice, in the merged and (if it passes the
\* filter) in the rendered sequence.
C8_MergeKeepsEverything ==
    (pc \in {"merged", "done"}) =>
        /\ Len(merged) = Len(primary) + Len(ollamaModels)
        /\ \A i \in 1..Len(primary) : merged[i] = primary[i]
        /\ \A i \in 1..Len(ollamaModels) : merged[Len(primary) + i] = ollamaModels[i]
        /\ \A p \in 1..Len(primary) : \A o \in 1..Len(ollamaModels) :
              (primary[p].ID = ollamaModels[o].ID) =>
                  /\ Cardinality({i \in 1..Len(merged) : merged[i].ID = primary[p].ID}) >= 2
                  /\ (pc = "done" /\ primary[p] \in Range(filtered)) =>
                        Cardinality({i \in 1..Len(RenderedIDs) :
                                        HasPrefix(RenderedIDs[i], primary[p].ID)}) >= 2

\* both sources emitted ollama/m and both records were printed
C8_Witness ==
    /\ pc = "done"
    /\ primary = <<P3>>
    /\ Len(ollamaModels) = 1
    /\ ollamaModels[1].ID = P3.ID
    /\ Len(models) = 2
    /\ models[1].ID = models[2].ID
    /\ Len(RenderedIDs) = 2

\* strictly increasing index maps from 1..n into 1..m
RECURSIVE Embeddings(_, _, _)
Embeddings(n, m, from) ==
    IF n = 0 THEN {<<>>}
    ELSE UNION {{<<j>> \o e : e \in Embeddings(n - 1, m, j + 1)} : j \in from..m}

\* C9: FilterModels returns a stable subsequence of its input: every returned
\* record is an input record, unchanged, in the input's relative order, none
\* duplicated or invented.
C9_FilterStableSubsequence ==
    (pc = "filtered") =>
        \E e \in Embeddings(Len(filtered), Len(merged), 1) :
            \A k \in 1..Len(filtered) : filtered[k] = merged[e[k]]

\* two of three records were kept, in their input order
C9_Witness ==
    /\ pc = "filtered"
    /\ pattern = <<"o", "l", "l", "a", "m", "a", "/", "*">>
    /\ Len(merged) = 3
    /\ Len(filtered) = 2
    /\ merged[1] = P3
    /\ merged[2].ID # P3.ID
    /\ filtered[1] = P3
    /\ filtered[2] = merged[3]

\* C10: with the empty pattern FilterModels is the identity: the same
\* records, the same length, the same order, also for the empty input.
C10_NoPatternIsIdentity ==
    /\ FilterModels(<<>>, <<>>) = <<>>
    /\ (pc = "filtered" /\ pattern = <<>>) => filtered = merged

\* no pattern was given and all three merged records came through
C10_Witness ==
    /\ pc = "filtered"
    /\ pattern = <<>>
    /\ Len(merged) = 3
    /\ filtered = merged

----------------------------------------------------------------------------
(* GetOllamaHost *)

DefaultOllamaHost == <<"h", "t", "t", "p", ":", "/", "/", "l", "o", "c", "a", "l", "h", "o", "s", "t", ":", "1", "1", "4", "3", "4">>

\* a resolution that consults the environment before the flag
GetOllamaHostEnvFirst(flagHost, envHost) ==
    IF envHost # <<>> THEN envHost
    ELSE IF flagHost # <<>> THEN flagHost
    ELSE DefaultOllamaHost

\* GetOllamaHost(flagHost) where os.Getenv("OLLAMA_HOST") gives envHost
GetOllamaHost(flagHost, envHost) ==
    IF flagHost # <<>> THEN flagHost
    ELSE IF envHost # <<>> THEN envHost
    ELSE DefaultOllamaHost

----------------------------------------------------------------------------
(* The helpers applied to every input within the bounds *)

MaxSortLen == 3
MaxIdLen == 3
MaxColWidth == 3
MaxTextLen == 3
MaxWrapLen == 5
MaxSmallNumber == 1100
MaxShown == 2

\* the Created values of the records to sort
SortStamps == {100, 200, 300}

\* the k-th record of a list to sort; its ID tells it from the others
SortRecord(k, created) == Model(<<"r", Digits[k + 1]>>, <<>>, created, <<>>, <<>>)

SortInputs ==
    UNION {{[k \in 1..n |-> SortRecord(k, f[k])] : f \in [1..n -> SortStamps]}
             : n \in 0..MaxSortLen}

IdChars == {"a", "b", "/"}

TermWidthArgs ==
    {-1, 0, 1} \cup ((MinDescWidth + 16)..(MinDescWidth + 20 + 2 * MaxColWidth))
               \cup {DefaultTermWidth}

\* the characters of the descriptions: a, U+00E9, CR and LF
TextChars == {<<"a">>, <<"C3", "A9">>, <<CR>>, <<NL>>}

WrapChars == {"a", SP, NL}

FormatInputs ==
    ((0 - MaxSmallNumber)..MaxSmallNumber)
        \cup {123456, 999999, 1000000, 1234567, -123456, -999999, -1234567}

HostFlags == {<<>>, <<"h", "t", "t", "p", ":", "/", "/", "f", ":", "1">>}
HostEnvs == {<<>>, <<"h", "t", "t", "p", ":", "/", "/", "e", ":", "2">>}

\* a record whose ID and description hold a two-byte character
P5 == Model(<<"C3", "A9", "/", "e">>, <<"e">>, 86400, <<"C3", "A9", "C3", "A9", "C3", "A9", "C3", "A9", "C3", "A9", "C3", "A9", "C3", "A9", "C3", "A9", "C3", "A9", "C3", "A9", "C3", "A9", "C3", "A9", "C3", "A9", "C3", "A9", "C3", "A9", "C3", "A9", "\r", "\n", "C3", "A9", "C3", "A9", "C3", "A9", "C3", "A9", "C3", "A9", "C3", "A9", "C3", "A9", "C3", "A9", "C3", "A9", "C3", "A9", "C3", "A9", "C3", "A9", "C3", "A9", "C3", "A9", "C3", "A9", "C3", "A9">>, <<>>)

DisplayCatalog == {P1, P2, P4, P5}

(* The FilterModels of the snapshot src/unnamed/part_003, with one filter per
   field and a search term *)

\* strings.Contains(strings.ToLower(s), strings.ToLower(sub))
ContainsLower(s, sub) == Contains(ToLower(s), ToLower(sub))

\* a filter that keeps a record as soon as one supplied field filter matches
FilterModelsAnyField(ms, providerFilter, modelFilter, descriptionFilter, searchTerm) ==
    SelectSeq(ms, LAMBDA model :
        \/ providerFilter # <<>> /\ ContainsLower(ExtractProvider(model.ID), providerFilter)
        \/ modelFilter # <<>> /\ ContainsLower(model.ID, modelFilter)
        \/ descriptionFilter # <<>> /\ ContainsLower(model.Description, descriptionFilter))

FilterModelsByFields(ms, providerFilter, modelFilter, descriptionFilter, searchTerm) ==
    LET hasExplicitFilters ==
            providerFilter # <<>> \/ modelFilter # <<>> \/ descriptionFilter # <<>>
    IN IF ~hasExplicitFilters /\ searchTerm = <<>> THEN ms
       ELSE IF ~hasExplicitFilters
       THEN SelectSeq(ms, LAMBDA model :
                LET provider == ExtractProvider(model.ID)
                    modelMatch == \/ ContainsLower(model.ID, searchTerm)
                                  \/ ContainsLower(model.Name, searchTerm)
                    providerMatch == ContainsLower(provider, searchTerm)
                    descriptionMatch == ContainsLower(model.Description, searchTerm)
                IN modelMatch \/ providerMatch \/ descriptionMatch)
       ELSE SelectSeq(ms, LAMBDA model :
                LET provider == ExtractProvider(model.ID)
                    providerMatch == \/ providerFilter = <<>>
                                     \/ ContainsLower(provider, providerFilter)
                    modelMatch == \/ modelFilter = <<>>
                                  \/ ContainsLower(model.ID, modelFilter)
                                  \/ ContainsLower(model.Name, modelFilter)
                    descriptionMatch == \/ descriptionFilter = <<>>
                                        \/ ContainsLower(model.Description, descriptionFilter)
                IN providerMatch /\ modelMatch /\ descriptionMatch)

MaxFiltered == 2

ProviderFilters == {<<>>, <<"A", "I">>, <<"N">>}
ModelFilters == {<<>>, <<"g", "p", "t">>, <<"C", "l", "a", "u", "d", "e">>}
DescriptionFilters == {<<>>, <<"v", "i", "s", "i", "o", "n">>}
SearchTerms == {<<>>, <<"g", "p", "t">>}

InitFilterModelsByFields ==
    /\ fnName = "FilterModels"
    /\ fnArgs \in [models : StringsUpTo(DisplayCatalog, MaxFiltered),
                   providerFilter : ProviderFilters, modelFilter : ModelFilters,
                   descriptionFilter : DescriptionFilters, searchTerm : SearchTerms]

MaxPriced == 2

\* the price strings of the API: absent, zero, and two decimals
Prices == {<<>>, <<"0">>, <<"0", ".", "0", "0", "0", "0", "0", "2">>, <<"0", ".", "0", "3">>}

\* records that differ in their prices only
PricedRecords ==
    {[P1 EXCEPT !.Pricing = [Prompt |-> p, Completion |-> c]] : p \in Prices, c \in Prices}

InitDisplayModelsDetailed ==
    /\ fnName = "DisplayModelsDetailed"
    /\ fnArgs \in [models : StringsUpTo(PricedRecords, MaxPriced),
                   termWidth : GetTerminalWidth, offset : LocalOffsets]

\* terminal widths for the compact table: those of the list invocation and
\* one at which the longest description is cut above the minimum width
TableWidths == GetTerminalWidth \cup {76}

InitFn ==
    /\ ListIdle
    /\ GlobIdle
    /\ fnPc = "call"
    /\ fnRet = <<>>
    /\ \/ /\ fnName = "SortModelsByCreatedDesc"
          /\ fnArgs \in {[models |-> ms] : ms \in SortInputs}
       \/ /\ fnName = "ExtractProvider"
          /\ fnArgs \in {[modelID |-> id] : id \in StringsUpTo(IdChars, MaxIdLen)}
       \/ /\ fnName = "CalculateDescriptionWidth"
          /\ fnArgs \in [termWidth : TermWidthArgs, modelWidth : 0..MaxColWidth,
                         providerWidth : 0..MaxColWidth]
       \/ /\ fnName = "TruncateDescription"
          /\ fnArgs \in {[desc |-> RunesToString(rs), maxLen |-> n] :
                            rs \in StringsUpTo(TextChars, MaxTextLen),
                            n \in 0..MaxTextLen}
       \/ /\ fnName = "WrapText"
          /\ fnArgs \in [text : StringsUpTo(WrapChars, MaxWrapLen),
                         width : 0..MaxWrapLen]
       \/ /\ fnName = "FormatNumber"
          /\ fnArgs \in [n : FormatInputs]
       \/ /\ fnName = "GetOllamaHost"
          /\ fnArgs \in [flagHost : HostFlags, envHost : HostEnvs]
       \/ /\ fnName = "DisplayModels"
          /\ fnArgs \in [models : StringsUpTo(DisplayCatalog, MaxShown),
                         termWidth : TableWidths, offset : LocalOffsets]
       \/ InitFilterModelsByFields
       \/ InitDisplayModelsDetailed

\* what every call of the harness leaves alone
FnFrame ==
    /\ fnPc' = "ret"
    /\ UNCHANGED <<fnName, fnArgs>>
    /\ UNCHANGED listVars
    /\ UNCHANGED globVars

CallFilterModelsByFields ==
    /\ fnPc = "call"
    /\ fnName = "FilterModels"
    /\ fnRet' = FilterModelsByFields(fnArgs.models, fnArgs.providerFilter,
                                     fnArgs.modelFilter, fnArgs.descriptionFilter,
                                     fnArgs.searchTerm)
    /\ FnFrame

CallSortModelsByCreatedDesc ==
    /\ fnPc = "call"
    /\ fnName = "SortModelsByCreatedDesc"
    /\ fnRet' \in SortModelsByCreatedDesc(fnArgs.models)
    /\ FnFrame

CallExtractProvider ==
    /\ fnPc = "call"
    /\ fnName = "ExtractProvider"
    /\ fnRet' = ExtractProvider(fnArgs.modelID)
    /\ FnFrame

CallCalculateDescriptionWidth ==
    /\ fnPc = "call"
    /\ fnName = "CalculateDescriptionWidth"
    /\ fnRet' = CalculateDescriptionWidth(fnArgs.termWidth, fnArgs.modelWidth,
                                          fnArgs.providerWidth)
    /\ FnFrame

CallTruncateDescription ==
    /\ fnPc = "call"
    /\ fnName = "TruncateDescription"
    /\ fnRet' = TruncateDescription(fnArgs.desc, fnArgs.maxLen)
    /\ FnFrame

CallWrapText ==
    /\ fnPc = "call"
    /\ fnName = "WrapText"
    /\ fnRet' = WrapText(fnArgs.text, fnArgs.width)
    /\ FnFrame

CallFormatNumber ==
    /\ fnPc = "call"
    /\ fnName = "FormatNumber"
    /\ fnRet' = FormatNumber(fnArgs.n)
    /\ FnFrame

CallGetOllamaHost ==
    /\ fnPc = "call"
    /\ fnName = "GetOllamaHost"
    /\ fnRet' = GetOllamaHost(fnArgs.flagHost, fnArgs.envHost)
    /\ FnFrame

CallDisplayModels ==
    /\ fnPc = "call"
    /\ fnName = "DisplayModels"
    /\ fnRet' = DisplayModels(fnArgs.models, fnArgs.termWidth, fnArgs.offset)
    /\ FnFrame

CallDisplayModelsDetailed ==
    /\ fnPc = "call"
    /\ fnName = "DisplayModelsDetailed"
    /\ fnRet' = DisplayModelsDetailed(fnArgs.models, fnArgs.termWidth, fnArgs.offset)
    /\ FnFrame

NextFn ==
    \/ CallSortModelsByCreatedDesc
    \/ CallExtractProvider
    \/ CallCalculateDescriptionWidth
    \/ CallTruncateDescription
    \/ CallWrapText
    \/ CallFormatNumber
    \/ CallGetOllamaHost
    \/ CallDisplayModels
    \/ CallFilterModelsByFields
    \/ CallDisplayModelsDetailed

SpecFn == InitFn /\ [][NextFn]_vars

\* whether the harness has returned from the helper called `name`
Returned(name) == fnPc = "ret" /\ fnName = name

----------------------------------------------------------------------------
(* Properties of the helpers *)

CreatedOf(ms) == [i \in 1..Len(ms) |-> ms[i].Created]

\* C11: what SortModelsByCreatedDesc leaves is a permutation of what it was
\* given (every record as often as before) in which no record is followed by
\* one with a greater Created; [100, 300, 200] becomes [300, 200, 100].
C11_SortIsDescendingPermutation ==
    Returned("SortModelsByCreatedDesc") =>
        /\ IsPermutation(fnRet, fnArgs.models)
        /\ IsDescending(fnRet)
        /\ (CreatedOf(fnArgs.models) = <<100, 300, 200>>
               => CreatedOf(fnRet) = <<300, 200, 100>>)

\* the example: three records given as 100, 300, 200 came back reordered
C11_Witness ==
    /\ Returned("SortModelsByCreatedDesc")
    /\ CreatedOf(fnArgs.models) = <<100, 300, 200>>
    /\ fnRet = <<fnArgs.models[2], fnArgs.models[3], fnArgs.models[1]>>

\* the records of ms whose Created is c, in the order ms has them
WithCreated(ms, c) == SelectSeq(ms, LAMBDA r : r.Created = c)

\* C12: sorting keeps records of equal Created in the relative order they
\* had before the sort (so a primary record stays ahead of a secondary record
\* of the same Created).
C12_SortKeepsTieOrder ==
    (pc = "sorted") =>
        \A c \in Range(CreatedOf(filtered)) :
            WithCreated(models, c) = WithCreated(filtered, c)

\* C13: ExtractProvider(id) is the part of id before its first "/" when that
\* "/" is not the first byte, and is "Unknown" when id has no "/" or begins
\* with one; it is never the empty string.
C13_ExtractProviderPrefixOrUnknown ==
    Returned("ExtractProvider") =>
        LET id == fnArgs.modelID
            slashes == {i \in 1..Len(id) : id[i] = "/"}
        IN /\ fnRet # <<>>
           /\ IF slashes = {} \/ 1 \in slashes
              THEN fnRet = <<"U", "n", "k", "n", "o", "w", "n">>
              ELSE \E i \in slashes :
                      /\ \A j \in slashes : i <= j
                      /\ fnRet = SubSeq(id, 1, i - 1)

\* an id that begins with "/" gave the sentinel
C13_Witness ==
    /\ Returned("ExtractProvider")
    /\ fnArgs.modelID = <<"/", "a">>
    /\ fnRet = <<"U", "n", "k", "n", "o", "w", "n">>

\* C14: CalculateDescriptionWidth(termWidth, idWidth, providerWidth) is the
\* greater of 30 and termWidth - idWidth - providerWidth - 18 (10 for the
\* date, 3 for the separators, 5 as margin), so it is at least 30 for every
\* termWidth, zero and negative ones included.
C14_DescriptionWidthFloor ==
    Returned("CalculateDescriptionWidth") =>
        LET rest == fnArgs.termWidth - fnArgs.modelWidth - fnArgs.providerWidth
                        - (10 + 3 + 5)
        IN /\ fnRet = Max(30, rest)
           /\ fnRet >= 30

\* a negative terminal width gave the floor
C14_Witness ==
    /\ Returned("CalculateDescriptionWidth")
    /\ fnArgs.termWidth = -1
    /\ fnArgs.modelWidth = 2
    /\ fnRet = 30

\* text with every line break (CR LF, a lone CR, a lone LF) replaced by one
\* space, read from left to right
RECURSIVE OneSpacePerLineBreak(_)
OneSpacePerLineBreak(s) ==
    IF s = <<>> THEN <<>>
    ELSE IF Len(s) >= 2 /\ s[1] = CR /\ s[2] = NL
         THEN <<SP>> \o OneSpacePerLineBreak(SubSeq(s, 3, Len(s)))
    ELSE IF s[1] \in {CR, NL} THEN <<SP>> \o OneSpacePerLineBreak(Tail(s))
    ELSE <<s[1]>> \o OneSpacePerLineBreak(Tail(s))

\* C15: TruncateDescription(text, maxLen) works on the text with every line
\* break (CR LF, lone CR, lone LF) replaced by one space, so its result holds
\* no CR and no LF; a folded text of at most maxLen characters is returned as
\* it is, a longer one gives its first maxLen characters followed by "..",
\* maxLen + 2 characters in all.
C15_TruncateFoldsThenCuts ==
    Returned("TruncateDescription") =>
        LET folded == OneSpacePerLineBreak(fnArgs.desc)
            chars == Runes(folded)
            n == fnArgs.maxLen
        IN /\ CR \notin Range(fnRet)
           /\ NL \notin Range(fnRet)
           /\ IF Len(chars) <= n THEN fnRet = folded
              ELSE /\ fnRet = RunesToString(SubSeq(chars, 1, n)) \o <<".", ".">>
                   /\ Len(Runes(fnRet)) = n + 2
           /\ TruncateDescription(<<"h", "e", "l", "l", "o">>, 10) = <<"h", "e", "l", "l", "o">>
           /\ TruncateDescription(<<"h", "e", "l", "l", "o", " ", "w", "o", "r", "l", "d">>, 5) = <<"h", "e", "l", "l", "o", ".", ".">>
           /\ TruncateDescription(<<"l", "i", "n", "e", "1", "\n", "l", "i", "n", "e", "2">>, 40) = <<"l", "i", "n", "e", "1", " ", "l", "i", "n", "e", "2">>

\* a text that begins with CR LF was folded to one space and then cut
C15_Witness ==
    /\ Returned("TruncateDescription")
    /\ fnArgs.desc = <<CR, NL, "a">>
    /\ fnArgs.maxLen = 1
    /\ fnRet = <<SP, ".", ".">>

\* C16 as stated: when text has N characters and more than N bytes,
\* TruncateDescription(text, N - 1) is the first N - 1 characters (line breaks
\* folded) followed by "..".
C16_CutAtCharacterOfInput ==
    Returned("TruncateDescription") =>
        LET n == Len(Runes(fnArgs.desc))
            folded == Runes(OneSpacePerLineBreak(fnArgs.desc))
        IN (Len(fnArgs.desc) > n /\ fnArgs.maxLen = n - 1) =>
               /\ Len(folded) >= n - 1
               /\ fnRet = RunesToString(SubSeq(folded, 1, n - 1)) \o <<".", ".">>

\* C16: truncation never splits a multi-byte character.  When the folded text
\* (every line break replaced by one space) has N characters and more than N
\* bytes, TruncateDescription(text, N - 1) is the first N - 1 whole characters
\* of the folded text followed by "..": the cut is counted in characters, and
\* no byte of the result is a piece of a character.
C16_CutAtCharacterOfFoldedText ==
    Returned("TruncateDescription") =>
        LET folded == OneSpacePerLineBreak(fnArgs.desc)
            chars == Runes(folded)
            n == Len(chars)
        IN (Len(folded) > n /\ fnArgs.maxLen = n - 1) =>
               /\ fnRet = RunesToString(SubSeq(chars, 1, n - 1)) \o <<".", ".">>
               /\ Len(Runes(fnRet)) = n + 1
               /\ RuneError \notin Range(Runes(fnRet))

\* a two-byte character followed by "a", cut to one character: both bytes of
\* the first character are kept
C16_Witness ==
    /\ Returned("TruncateDescription")
    /\ fnArgs.desc = <<"C3", "A9", "a">>
    /\ fnArgs.maxLen = 1
    /\ fnRet = <<"C3", "A9", ".", ".">>

\* C17: every line WrapText returns either has at most width bytes or is one
\* single word, which may be longer than width and is then alone on its line,
\* whole and unchanged.
C17_WrapLineFitsOrIsOneWord ==
    Returned("WrapText") =>
        LET words == Fields(fnArgs.text, <<>>)
        IN \A i \in 1..Len(fnRet) :
              \/ Len(fnRet[i]) <= fnArgs.width
              \/ /\ SP \notin Range(fnRet[i])
                 /\ fnRet[i] \in Range(words)

\* the word "aa", longer than the width 1, stands whole on a line of its own
C17_Witness ==
    /\ Returned("WrapText")
    /\ fnArgs.text = <<"a", "a", NL, "a", SP>>
    /\ fnArgs.width = 1
    /\ fnRet = <<<<"a", "a">>, <<"a">>>>

StripCommas(s) == SelectSeq(s, LAMBDA c : c # ",")

\* C18: FormatNumber(n) is the decimal form of n with a "," before every
\* group of three digits counted from the right and none at the front: the
\* output does not begin with ",", has no "," right after a sign, and without
\* its commas is the decimal form of n; 1234567 gives "1,234,567", 999 "999".
C18_FormatNumberGroups ==
    Returned("FormatNumber") =>
        LET digits == Len(NatToStr(IF fnArgs.n < 0 THEN 0 - fnArgs.n ELSE fnArgs.n))
        IN /\ fnRet[1] # ","
           /\ \A i \in 1..(Len(fnRet) - 1) : fnRet[i] = "-" => fnRet[i + 1] # ","
           /\ StripCommas(fnRet) = IntToStr(fnArgs.n)
           /\ Len(fnRet) - Len(StripCommas(fnRet)) = (digits - 1) \div 3
           /\ \A i \in 1..Len(fnRet) :
                 fnRet[i] = "," =>
                     (Len(fnRet) - i) % 4 = 3 /\ i > 1 /\ IsDigit(fnRet[i - 1])
           /\ (fnArgs.n = 1234567 => fnRet = <<"1", ",", "2", "3", "4", ",", "5", "6", "7">>)
           /\ (fnArgs.n = 999 => fnRet = <<"9", "9", "9">>)

\* C19: GetOllamaHost gives the flag value whenever it is not empty, whatever
\* the environment holds; otherwise the value of OLLAMA_HOST when that is not
\* empty; otherwise "http://localhost:11434".  The result is never empty.
C19_HostPrecedence ==
    Returned("GetOllamaHost") =>
        /\ fnRet # <<>>
        /\ (fnArgs.flagHost # <<>> => fnRet = fnArgs.flagHost)
        /\ (fnArgs.flagHost = <<>> /\ fnArgs.envHost # <<>> => fnRet = fnArgs.envHost)
        /\ (fnArgs.flagHost = <<>> /\ fnArgs.envHost = <<>>
               => fnRet = <<"h", "t", "t", "p", ":", "/", "/", "l", "o", "c", "a", "l", "h", "o", "s", "t", ":", "1", "1", "4", "3", "4">>)

\* flag and environment were both set, to different values, and the flag won
C19_Witness ==
    /\ Returned("GetOllamaHost")
    /\ fnArgs.flagHost # <<>>
    /\ fnArgs.envHost # <<>>
    /\ fnArgs.envHost # fnArgs.flagHost
    /\ fnRet = fnArgs.flagHost

\* s is text followed by nothing but spaces
IsPadded(s, text) ==
    /\ Len(s) >= Len(text)
    /\ SubSeq(s, 1, Len(text)) = text
    /\ \A k \in (Len(text) + 1)..Len(s) : s[k] = <<SP>>

\* C20: DisplayModels prints one line per record, in the order of the
\* records, and nothing else; on every line the id is padded with spaces to
\* the greatest id length of the call and the provider tag to the greatest
\* provider-tag length of the call (lengths as len gives them, padding counted
\* in characters), so the date begins at the same column of every line; for
\* no records it prints nothing.
C20_CompactTableColumns ==
    Returned("DisplayModels") =>
        LET ms == fnArgs.models
            prov(i) == ExtractProvider(ms[i].ID)
            idWidth == MaxOver([i \in 1..Len(ms) |-> Len(ms[i].ID)], 1)
            provWidth == MaxOver([i \in 1..Len(ms) |-> Len(prov(i))], 1)
            dateCol == idWidth + 1 + provWidth + 1
        IN /\ Len(fnRet) = Len(ms)
           /\ (ms = <<>> => fnRet = <<>>)
           /\ \A i \in 1..Len(ms) :
                 LET line == FirstRunes(fnRet[i], dateCol + 10)
                 IN /\ NL \notin Range(fnRet[i])
                    /\ Len(line) = dateCol + 10
                    /\ IsPadded(SubSeq(line, 1, idWidth), Runes(ms[i].ID))
                    /\ line[idWidth + 1] = <<SP>>
                    /\ IsPadded(SubSeq(line, idWidth + 2, idWidth + 1 + provWidth),
                                Runes(prov(i)))
                    /\ line[dateCol] = <<SP>>
                    /\ RunesToString(SubSeq(line, dateCol + 1, dateCol + 10))
                           = FormatDate(ms[i].Created, fnArgs.offset)

\* two records with ids of 4 and 14 bytes: both lines have the provider tag
\* in columns 16..22, padded where it is shorter
C20_Witness ==
    /\ Returned("DisplayModels")
    /\ fnArgs.models = <<P4, P1>>
    /\ Len(fnRet) = 2
    /\ SubSeq(fnRet[1], 1, 23) = <<"s", "o", "l", "o", " ", " ", " ", " ", " ", " ", " ", " ", " ", " ", " ", "U", "n", "k", "n", "o", "w", "n", " ">>
    /\ SubSeq(fnRet[2], 1, 23) = <<"o", "p", "e", "n", "a", "i", "/", "g", "p", "t", "-", "4", ".", "1", " ", "o", "p", "e", "n", "a", "i", " ", " ">>

----------------------------------------------------------------------------
(* Further properties of the list invocation *)

\* C21: a filter that keeps no record is no error.  The invocation, compact
\* or verbose, writes nothing to standard output and nothing to standard
\* error, and ends with status 0.
C21_EmptyResultIsSilentSuccess ==
    /\ (pc \in {"filtered", "sorted"} /\ filtered = <<>>) => exitCode = -1
    /\ (pc = "sorted" /\ filtered = <<>>) => models = <<>>
    /\ (filtered = <<>>) => pc # "exited" \/ fetchErr # ""
    /\ (pc = "done" /\ filtered = <<>>) =>
           /\ stdout = <<>>
           /\ stderr = <<>>
           /\ exitCode = 0

\* a verbose invocation fetched three records, its pattern kept none of them,
\* and it ended with status 0 having written nothing
C21_Witness ==
    /\ pc = "done"
    /\ detail
    /\ pattern = <<"z", "z", "z">>
    /\ Len(merged) = 3
    /\ filtered = <<>>
    /\ stdout = <<>>
    /\ stderr = <<>>
    /\ exitCode = 0

\* the positions of the rule lines in what was printed, in ascending order
RulePositions(out) ==
    SelectSeq([k \in 1..Len(out) |-> k], LAMBDA k : out[k] = Rule)

\* the i-th block of a verbose output: from its (2i-1)-th rule line to its
\* 2i-th
BlockOf(out, i) ==
    LET rs == RulePositions(out)
    IN IF 2 * i <= Len(rs) THEN SubSeq(out, rs[2 * i - 1], rs[2 * i]) ELSE <<>>

ExtendedLabels == {LabelFamily, LabelPsize, LabelQuant, LabelFormat, LabelMsize}

\* whether some line of block begins with label
HasLine(block, label) == \E k \in 1..Len(block) : HasPrefix(block[k], label)

\* C22: a record carries the extended Ollama fields exactly when it came from
\* the secondary source.  In the verbose output the family, parameter size,
\* quantization, format and model size lines appear only in the blocks of
\* records that carry the fields, one for each field that is set; the block
\* of a primary record has none of them.
C22_ExtendedFieldsFollowSource ==
    /\ \A i \in 1..Len(ollamaModels) : ollamaModels[i].OllamaDetails # <<>>
    /\ \A i \in 1..Len(primary) : primary[i].OllamaDetails = <<>>
    /\ (pc = "done" /\ detail) =>
           \A i \in 1..Len(models) :
              LET block == BlockOf(stdout, i)
                  od == models[i].OllamaDetails
              IN /\ LabelId \o models[i].ID \in Range(block)
                 /\ (od = <<>>) =>
                        \A label \in ExtendedLabels : ~HasLine(block, label)
                 /\ (od # <<>>) =>
                        /\ HasLine(block, LabelFamily) <=> od[1].Family # <<>>
                        /\ HasLine(block, LabelPsize) <=> od[1].ParameterSize # <<>>
                        /\ HasLine(block, LabelQuant) <=> od[1].QuantizationLevel # <<>>
                        /\ HasLine(block, LabelFormat) <=> od[1].Format # <<>>
                        /\ HasLine(block, LabelMsize) <=> od[1].Size > 0

\* a primary and a secondary record of the same id were printed: the block
\* of the secondary one shows its family and size, the other block shows no
\* extended line
C22_Witness ==
    /\ pc = "done"
    /\ detail
    /\ primary = <<P3>>
    /\ Len(ollamaModels) = 1
    /\ models = <<P3, ollamaModels[1]>>
    /\ LabelFamily \o <<"l", "l", "a", "m", "a">> \in Range(BlockOf(stdout, 2))
    /\ LabelMsize \o <<"1", ".", "5", "0", " ", "G", "B">> \in Range(BlockOf(stdout, 2))
    /\ \A label \in ExtendedLabels : ~HasLine(BlockOf(stdout, 1), label)

\* C23: the pattern "ollama/*" lists the local Ollama models and nothing
\* else: the filter keeps every secondary record and no primary record.
C23_OllamaPatternKeepsSecondaryOnly ==
    (pc = "filtered" /\ pattern = <<"o", "l", "l", "a", "m", "a", "/", "*">>) => filtered = ollamaModels

----------------------------------------------------------------------------
(* The providers subcommand *)

\* the printable ASCII characters from 0x20 to 0x5F and from 0x61 to 0x7E
PrintableLow == <<" ", "!", "\"", "#", "$", "%", "&", "'", "(", ")", "*", "+", ",", "-", ".", "/", "0", "1", "2", "3", "4", "5", "6", "7", "8", "9", ":", ";", "<", "=", ">", "?", "@", "A", "B", "C", "D", "E", "F", "G", "H", "I", "J", "K", "L", "M", "N", "O", "P", "Q", "R", "S", "T", "U", "V", "W", "X", "Y", "Z", "[", "\\", "]", "^", "_">>
PrintableHigh == <<"a", "b", "c", "d", "e", "f", "g", "h", "i", "j", "k", "l", "m", "n", "o", "p", "q", "r", "s", "t", "u", "v", "w", "x", "y", "z", "{", "|", "}", "~">>

\* the value of a byte
ByteValue(c) ==
    IF c = TAB THEN 9
    ELSE IF c = NL THEN 10
    ELSE IF c = CR THEN 13
    ELSE IF c = "A9" THEN 169
    ELSE IF c = "BD" THEN 189
    ELSE IF c = "BF" THEN 191
    ELSE IF c = "C3" THEN 195
    ELSE IF c = "EF" THEN 239
    ELSE IF c = BAD THEN 255
    ELSE IF \E i \in 1..Len(PrintableLow) : PrintableLow[i] = c
    THEN 31 + (CHOOSE i \in 1..Len(PrintableLow) : PrintableLow[i] = c)
    ELSE 96 + (CHOOSE i \in 1..Len(PrintableHigh) : PrintableHigh[i] = c)

\* a < b for Go strings: byte by byte, a proper prefix first
RECURSIVE StringLess(_, _)
StringLess(a, b) ==
    IF b = <<>> THEN FALSE
    ELSE IF a = <<>> THEN TRUE
    ELSE IF Head(a) = Head(b) THEN StringLess(Tail(a), Tail(b))
    ELSE ByteValue(Head(a)) < ByteValue(Head(b))

\* sort.Strings on distinct strings: the least first
RECURSIVE SortStrings(_)
SortStrings(set) ==
    IF set = {} THEN <<>>
    ELSE LET least == CHOOSE x \in set : \A y \in set \ {x} : StringLess(x, y)
         IN <<least>> \o SortStrings(set \ {least})

\* a DisplayProviders that prints the tag of every record as it comes
DisplayProvidersPerRecord(ms) ==
    [i \in 1..Len(ms) |-> ExtractProvider(ms[i].ID)]

\* the lines DisplayProviders prints
DisplayProviders(ms) ==
    IF Len(ms) = 0 THEN <<>>
    ELSE LET providerSet == {ExtractProvider(ms[i].ID) : i \in 1..Len(ms)}
         IN SortStrings(providerSet)

MaxFetched == 3

\* the arguments that may follow "providers" on the command line
ProviderArgLists == {<<>>, <<<<"o", "p", "e", "n">>>>, <<<<>>>>}

\* what providersCommand writes to standard error when it is given arguments
ProvidersUsage ==
    <<<<"E", "r", "r", "o", "r", ":", " ", "p", "r", "o", "v", "i", "d", "e", "r", "s", " ", "s", "u", "b", "c", "o", "m", "m", "a", "n", "d", " ", "d", "o", "e", "s", " ", "n", "o", "t", " ", "a", "c", "c", "e", "p", "t", " ", "a", "r", "g", "u", "m", "e", "n", "t", "s">>,
      <<"U", "s", "e", " ", "'", "l", "l", "m", "l", "s", " ", "p", "r", "o", "v", "i", "d", "e", "r", "s", " ", "|", " ", "g", "r", "e", "p", " ", "p", "a", "t", "t", "e", "r", "n", "'", " ", "t", "o", " ", "f", "i", "l", "t", "e", "r">>,
      <<>>,
      <<"U", "s", "a", "g", "e", ":", " ", "l", "l", "m", "l", "s", " ", "p", "r", "o", "v", "i", "d", "e", "r", "s">>,
      <<>>,
      <<"L", "i", "s", "t", " ", "a", "l", "l", " ", "p", "r", "o", "v", "i", "d", "e", "r", " ", "n", "a", "m", "e", "s", ".">>,
      <<"U", "s", "e", " ", "e", "x", "t", "e", "r", "n", "a", "l", " ", "t", "o", "o", "l", "s", " ", "l", "i", "k", "e", " ", "g", "r", "e", "p", " ", "t", "o", " ", "f", "i", "l", "t", "e", "r", ":">>,
      <<" ", " ", "l", "l", "m", "l", "s", " ", "p", "r", "o", "v", "i", "d", "e", "r", "s", " ", "|", " ", "g", "r", "e", "p", " ", "o", "p", "e", "n">>>>

InitProviders ==
    /\ pc = "providers"
    /\ provArgs \in ProviderArgLists
    /\ pattern = <<>>
    /\ detail = FALSE
    /\ models = <<>>
    /\ ollamaModels = <<>>
    /\ primary = <<>>
    /\ merged = <<>>
    /\ filtered = <<>>
    /\ stdout = <<>>
    /\ stderr = <<>>
    /\ exitCode = -1
    /\ steps = <<>>
    /\ fetchErr = ""
    /\ ollamaErr = ""
    /\ termW = 0
    /\ tzOffset = 0
    /\ GlobIdle
    /\ FnIdle

\* what no step of providersCommand touches
ProvidersFrame ==
    /\ UNCHANGED <<provArgs, pattern, detail, ollamaModels, merged, filtered,
                   ollamaErr, termW, tzOffset>>
    /\ UNCHANGED globVars
    /\ UNCHANGED fnVars

\* a providersCommand that takes its first argument as a filter and goes on
ProvidersTakeFilter ==
    /\ pc = "providers"
    /\ Len(provArgs) > 0
    /\ pc' = "parsed"
    /\ steps' = Append(steps, "filter")
    /\ UNCHANGED <<models, primary, stdout, stderr, exitCode, fetchErr>>
    /\ ProvidersFrame

\* fs.NArg() > 0: the error, the usage, os.Exit(1)
ProvidersRejectArgs ==
    /\ pc = "providers"
    /\ Len(provArgs) > 0
    /\ stderr' = stderr \o ProvidersUsage
    /\ exitCode' = 1
    /\ pc' = "exited"
    /\ UNCHANGED <<models, primary, stdout, steps, fetchErr>>
    /\ ProvidersFrame

\* fs.NArg() == 0
ProvidersNoArgs ==
    /\ pc = "providers"
    /\ Len(provArgs) = 0
    /\ pc' = "parsed"
    /\ UNCHANGED <<models, primary, stdout, stderr, exitCode, steps, fetchErr>>
    /\ ProvidersFrame

\* models, err := FetchModels() with err == nil
ProvidersFetchOk ==
    /\ pc = "parsed"
    /\ \E data \in StringsUpTo(PrimaryCatalog \cup {P5}, MaxFetched) :
          /\ models' = data
          /\ primary' = data
    /\ steps' = Append(steps, "FetchModels")
    /\ pc' = "fetched"
    /\ UNCHANGED <<stdout, stderr, exitCode, fetchErr>>
    /\ ProvidersFrame

\* FetchModels fails: the error line, os.Exit(1)
ProvidersFetchErr ==
    /\ pc = "parsed"
    /\ \E cause \in FetchFailures :
          /\ fetchErr' = cause
          /\ stderr' = Append(stderr, ErrorLine(cause))
    /\ steps' = Append(steps, "FetchModels")
    /\ exitCode' = 1
    /\ pc' = "exited"
    /\ UNCHANGED <<models, primary, stdout>>
    /\ ProvidersFrame

\* DisplayProviders(models), then the command and main return
ProvidersDisplay ==
    /\ pc = "fetched"
    /\ stdout' = stdout \o DisplayProviders(models)
    /\ steps' = Append(steps, "DisplayProviders")
    /\ exitCode' = 0
    /\ pc' = "done"
    /\ UNCHANGED <<models, primary, stderr, fetchErr>>
    /\ ProvidersFrame

NextProviders ==
    \/ ProvidersRejectArgs
    \/ ProvidersNoArgs
    \/ ProvidersFetchOk
    \/ ProvidersFetchErr
    \/ ProvidersDisplay

SpecProviders == InitProviders /\ [][NextProviders]_vars

----------------------------------------------------------------------------
(* Properties of the providers subcommand *)

\* the derived provider tags of the records
ProviderTags(ms) == {ExtractProvider(ms[i].ID) : i \in 1..Len(ms)}

\* C24: the providers subcommand prints every distinct derived provider tag
\* of the fetched records once, one tag per line, each line greater than the
\* one before it in the order of Go's strings (byte by byte), and it prints
\* nothing else.
C24_ProvidersSortedOnce ==
    (pc = "done" /\ "DisplayProviders" \in Range(steps)) =>
        /\ Range(stdout) = ProviderTags(primary)
        /\ Len(stdout) = Cardinality(ProviderTags(primary))
        /\ \A i \in 1..(Len(stdout) - 1) : StringLess(stdout[i], stdout[i + 1])
        /\ stderr = <<>>
        /\ exitCode = 0

\* three records of two providers: two lines, "Unknown" before "openai"
C24_Witness ==
    /\ pc = "done"
    /\ primary = <<P1, P4, P1>>
    /\ stdout = <<<<"U", "n", "k", "n", "o", "w", "n">>, <<"o", "p", "e", "n", "a", "i">>>>

\* the tags that contain the filter, letter case ignored
TagsContaining(ms, f) ==
    {t \in ProviderTags(ms) : Contains(ToLower(t), ToLower(f))}

----------------------------------------------------------------------------
(* Properties of the FilterModels of src/unnamed/part_003 *)

\* an absent filter is satisfied by every text; a given one by the texts it
\* occurs in, letter case ignored
Satisfies(texts, filter) ==
    filter = <<>> \/ \E t \in texts : Contains(ToLower(t), ToLower(filter))

\* C26: with at least one of the provider, model and description filters
\* given, the records kept are exactly those satisfying every given filter,
\* in their order, whatever the search term is
C26_FieldFiltersAreConjoined ==
    (/\ Returned("FilterModels")
     /\ \/ fnArgs.providerFilter # <<>>
        \/ fnArgs.modelFilter # <<>>
        \/ fnArgs.descriptionFilter # <<>>)
    => /\ fnRet = SelectSeq(fnArgs.models, LAMBDA m :
                     /\ Satisfies({ExtractProvider(m.ID)}, fnArgs.providerFilter)
                     /\ Satisfies({m.ID, m.Name}, fnArgs.modelFilter)
                     /\ Satisfies({m.Description}, fnArgs.descriptionFilter))
       /\ \A st \in SearchTerms :
              fnRet = FilterModelsByFields(fnArgs.models, fnArgs.providerFilter,
                                           fnArgs.modelFilter,
                                           fnArgs.descriptionFilter, st)

\* the provider filter "N" matches both records, the model filter "Claude"
\* only the second, and the search term "gpt" only the first: the second
\* record alone is kept
C26_Witness ==
    /\ Returned("FilterModels")
    /\ fnArgs.models = <<P1, P2>>
    /\ fnArgs.providerFilter = <<"N">>
    /\ fnArgs.modelFilter = <<"C", "l", "a", "u", "d", "e">>
    /\ fnArgs.descriptionFilter = <<>>
    /\ fnArgs.searchTerm = <<"g", "p", "t">>
    /\ fnRet = <<P2>>

----------------------------------------------------------------------------
(* Further properties of the verbose rendering *)

\* C27: the verbose output of n >= 1 records is n blocks, each from a rule
\* line of 80 "=" to the next rule line; the first line printed opens the
\* first block, the last line printed closes the last block, and between the
\* closing rule of a block and the opening rule of the next there is exactly
\* one line, which is blank; no other line is blank
C27_BlocksRuledAndSeparated ==
    (pc = "done" /\ detail /\ Len(filtered) >= 1)
    => LET n == Len(filtered)
           rs == RulePositions(stdout)
       IN /\ Len(Rule) = 80
          /\ Len(rs) = 2 * n
          /\ rs[1] = 1
          /\ rs[2 * n] = Len(stdout)
          /\ \A i \in 1..(n - 1) :
                 /\ rs[2 * i + 1] = rs[2 * i] + 2
                 /\ stdout[rs[2 * i] + 1] = <<>>
          /\ \A k \in 1..Len(stdout) :
                 stdout[k] = <<>> => \E i \in 1..(n - 1) : k = rs[2 * i] + 1

\* three records were rendered: six rule lines and two blank lines
C27_Witness ==
    /\ pc = "done"
    /\ detail
    /\ Len(filtered) = 3
    /\ Len(RulePositions(stdout)) = 6
    /\ Cardinality({k \in 1..Len(stdout) : stdout[k] = <<>>}) = 2
    /\ stdout[1] = Rule
    /\ stdout[Len(stdout)] = Rule

----------------------------------------------------------------------------
(* Further properties of WrapText *)

\* the elements of seq joined by single spaces
RECURSIVE JoinBySpace(_)
JoinBySpace(seq) ==
    IF seq = <<>> THEN <<>>
    ELSE IF Len(seq) = 1 THEN seq[1]
    ELSE seq[1] \o <<SP>> \o JoinBySpace(Tail(seq))

\* the first word of a line: its bytes up to the first space
FirstWord(line) ==
    LET sp == {k \in 1..Len(line) : line[k] = SP}
    IN IF sp = {} THEN line
       ELSE SubSeq(line, 1, (CHOOSE k \in sp : \A j \in sp : k <= j) - 1)

\* C28: the lines WrapText returns, joined by single spaces, are the words of
\* the text (line breaks counting as spaces) joined by single spaces; no line
\* is empty; a line is ended only when the next word, after one space, would
\* not fit in width; a text without words gives no line
C28_WrapIsGreedyAndKeepsWords ==
    Returned("WrapText")
    => LET words == Fields(FoldLineBreaks(fnArgs.text), <<>>)
       IN /\ JoinBySpace(fnRet) = JoinBySpace(words)
          /\ \A i \in 1..Len(fnRet) : fnRet[i] # <<>>
          /\ \A i \in 2..Len(fnRet) :
                 Len(fnRet[i - 1]) + 1 + Len(FirstWord(fnRet[i])) > fnArgs.width
          /\ (\A k \in 1..Len(fnArgs.text) : IsSpace(fnArgs.text[k])) => fnRet = <<>>

\* three words "a" at width 3, the first two separated by a line break: the
\* second word joins the first line, which is then full, and the third starts
\* a new one
C28_Witness ==
    /\ Returned("WrapText")
    /\ fnArgs.text = <<"a", NL, "a", SP, "a">>
    /\ fnArgs.width = 3
    /\ fnRet = <<<<"a", SP, "a">>, <<"a">>>>

\* a price other than "" and "0"
IsPriced(price) == price # <<>> /\ price # <<"0">>

\* what a price that is "" or "0" is to be shown as
ShownPrice(price) == IF IsPriced(price) THEN FormatPrice(price) ELSE <<"0">>

\* C29: the block of a record whose prompt price or completion price is
\* other than "" and "0" has a pricing line, and in a pricing line a price
\* that is "" or "0" is shown as "0"
C29_PricingLineWhenEitherPriceSet ==
    Returned("DisplayModelsDetailed")
    => \A i \in 1..Len(fnArgs.models) :
           LET pricing == fnArgs.models[i].Pricing
               block == BlockOf(fnRet, i)
           IN /\ (IsPriced(pricing.Prompt) \/ IsPriced(pricing.Completion))
                     => HasLine(block, LabelPricing)
              /\ \A k \in 1..Len(block) :
                     HasPrefix(block[k], LabelPricing)
                         => block[k] = LabelPricing \o ShownPrice(pricing.Prompt)
                                           \o LabelPrompt
                                           \o ShownPrice(pricing.Completion)
                                           \o LabelCompletion

----------------------------------------------------------------------------
(* Further properties of the compact table *)

IsAscii(s) == \A k \in 1..Len(s) : s[k] \notin Lead2 \cup Lead3 \cup Cont

\* the widest of the ids and of the provider tags of ms
MaxIdWidth(ms) ==
    CHOOSE w \in {Len(ms[i].ID) : i \in 1..Len(ms)} :
        \A i \in 1..Len(ms) : Len(ms[i].ID) <= w
MaxProviderWidth(ms) ==
    CHOOSE w \in {Len(ExtractProvider(ms[i].ID)) : i \in 1..Len(ms)} :
        \A i \in 1..Len(ms) : Len(ExtractProvider(ms[i].ID)) <= w

\* whether the description column of ms on a terminal of termWidth columns is
\* at its minimum of 30
FloorInEffect(ms, termWidth) ==
    termWidth - MaxIdWidth(ms) - MaxProviderWidth(ms) - 18 < 30

\* C30: for records with ASCII ids and descriptions, when the description
\* column is not at its minimum of 30, every line of the compact table has at
\* most termWidth - 3 characters, the two characters of the ellipsis
\* included; when the column is at its minimum a line can be longer than the
\* terminal is wide
C30_EllipsisWithinTerminal ==
    /\ (/\ Returned("DisplayModels")
        /\ fnArgs.models # <<>>
        /\ \A i \in 1..Len(fnArgs.models) :
               IsAscii(fnArgs.models[i].ID) /\ IsAscii(fnArgs.models[i].Description)
        /\ ~FloorInEffect(fnArgs.models, fnArgs.termWidth))
       => \A k \in 1..Len(fnRet) : Len(fnRet[k]) <= fnArgs.termWidth - 3
    /\ Returned("DisplayModels")
       => \E termWidth \in TableWidths, offset \in LocalOffsets :
              /\ FloorInEffect(<<P2>>, termWidth)
              /\ Len(DisplayModels(<<P2>>, termWidth, offset)[1]) > termWidth

\* on a terminal of 76 columns the description column of the second record
\* is 33 wide; its description of 39 characters is cut and the line, ellipsis
\* included, has 73 characters
C30_Witness ==
    /\ Returned("DisplayModels")
    /\ fnArgs.models = <<P2>>
    /\ fnArgs.termWidth = 76
    /\ ~FloorInEffect(fnArgs.models, fnArgs.termWidth)
    /\ Len(fnRet[1]) = 73
    /\ SubSeq(fnRet[1], 72, 73) = <<".", ".">>

====
